---- MODULE Spec2Model ----
(***************************************************************************)
(* Lookup routines of the Slack Terraform provider: getChannelByName,      *)
(* getChannelById, getUserByName, getUserByEmail, getUserGroupById and     *)
(* getUserGroupByHandle, with the data sources and resources that call     *)
(* them.  One behaviour of Spec is one Read of a data source: one call of  *)
(* one routine against the remote Slack endpoint and the rest of Read.     *)
(* One behaviour of ResourceSpec is the life of one managed channel or     *)
(* user group, one of ConfigureSpec the configuration of the provider, one *)
(* of ReadSpec a Read from its configuration on.                           *)
(* The endpoint is the environment: every response it gives                *)
(* (a page, a rate-limit signal, any other error) is a nondeterministic    *)
(* choice made when the request is issued.  Pages are recorded as the      *)
(* endpoint hands them out, so `pages` is the part of the remote           *)
(* collection the routine has seen.                                        *)
(***************************************************************************)
EXTENDS Naturals, Sequences, FiniteSets

VARIABLES
    kind,               \* the routine that is running
    name,               \* the requested key (name, id, email or handle)
    includeDeactivated, \* getUserByEmail's flag
    pc,                 \* position of the routine: call, list (getUserByEmail's
                        \* listing), select, parked, case, done
    cursor,             \* getChannelByName's cursor variable ("" is 0)
    previousResp,       \* getUserByName's page.previousResp (nil, or its Cursor)
    ctxDone,            \* ctx.Done() is closed
    timerFired,         \* the channel of time.After(RetryAfter) is ready
    selected,           \* the case the select statement picked
    rateLimits,         \* rate-limit signals received so far
    pages,              \* pages returned by the endpoint, in the order returned
    fetched,            \* log of the remote requests issued by the routine
    result,             \* what the routine returned: [item, err]
    diags,              \* resp.Diagnostics of the data source's Read
    state,              \* resp.State of the data source's Read
    roundTrip,          \* a second Read, by the id the first one stored
    remote,             \* the channels (user groups) of the remote workspace
    tfstate,            \* the Terraform state of the managed resource
    ops,                \* the last two resource operations, with their plans
    lookups,            \* the locals of each of two concurrent getChannelByName
    provider,           \* SlackProvider.Configure: its request, its response and
                        \* the client field of every data source and resource
    config              \* req.Config of the data source's Read

\* The variables of one lookup routine.
lookupVars == <<kind, name, includeDeactivated, pc, cursor, previousResp,
                ctxDone, timerFired, selected, rateLimits, pages, fetched,
                result>>

\* The variables of a data source's Read around the routine.
readVars == <<diags, state, roundTrip>>

\* The variables of a managed resource.
resVars == <<remote, tfstate, ops>>

vars == <<lookupVars, readVars, resVars, lookups, provider, config>>

----------------------------------------------------------------------------
(* Bounds of the model *)

MaxPages == 3
MaxPageLen == 2
MaxRateLimits == 2
MaxChannels == 1
MaxUserGroups == 2

\* Values of the compared attribute (channel.Name, user.Name,
\* user.Profile.Email, each.ID, each.Handle).
Names == {"a", "b"}

SeqsUpTo(S, n) == UNION {[1..k -> S] : k \in 0..n}

----------------------------------------------------------------------------
(* Error values.  An error is modelled by the parts of its message, so     *)
(* that wrapping an error with fmt.Errorf yields a different value and a   *)
(* verbatim return yields the same one.                                    *)

Nil == <<>>

\* Non-rate-limit failures of the remote endpoint.
ErrMsgs == {"invalid_auth", "users_not_found"}

RateLimitMsg == "slack rate limit exceeded"

CtxErrMsg == "context canceled"

Verbatim(e) == <<e>>

ChannelNotFound == <<"channel_not_found">>

ErrorListingChannels(e) == <<"error listing channels: ", e>>

UserNotFound(key) == <<"user: ", key, " not found">>

UserGroupNotFound(key) == <<"could not find user group ", key>>

----------------------------------------------------------------------------
(* Items and pages *)

\* slack.Channel{}, &slack.User{}, slack.UserGroup{}
ZeroItem == [key |-> "", pos |-> <<0, 0>>]

\* Mutant of Item: the routine returns the first element of the page it
\* found the match on.
ItemFirstOfPage(key, page, i) == [key |-> key, pos |-> <<page, 1>>]

\* The item at position i of the page-th page; pos is its place in the
\* remote collection (encounter order), which stands for its ID.
Item(key, page, i) == [key |-> key, pos |-> <<page, i>>]

\* The item a direct single-item fetch returns.
DirectItem(key) == [key |-> key, pos |-> <<0, 0>>]

\* The page a cursor names: the empty cursor names the first page.
PageIndex(c) == IF c = 0 THEN 1 ELSE c

\* What the endpoint may return for the page with index idx: any items,
\* and a continuation cursor naming the next page or the empty cursor.
PageResponses(idx) ==
    {[items |-> s, next |-> n] :
        s \in SeqsUpTo(Names, MaxPageLen),
        n \in (IF idx < MaxPages THEN {0, idx + 1} ELSE {0})}

\* Mutant of FirstMatch: ranges over the whole slice and keeps the last hit.
LastMatch(items, key) ==
    IF \E i \in 1..Len(items) : items[i] = key
    THEN CHOOSE i \in 1..Len(items) :
            /\ items[i] = key
            /\ \A j \in 1..Len(items) : items[j] = key => j <= i
    ELSE 0

\* for _, x := range items { if x.Key == key { return x } }:
\* the position of the first item whose key matches, 0 when none does.
FirstMatch(items, key) ==
    IF \E i \in 1..Len(items) : items[i] = key
    THEN CHOOSE i \in 1..Len(items) :
            /\ items[i] = key
            /\ \A j \in 1..(i - 1) : items[j] # key
    ELSE 0

Request(call, c, outcome) == [call |-> call, cursor |-> c, outcome |-> outcome]

Return(item, e) == [item |-> item, err |-> e]

\* Mutant of IsRateLimitedError: every error is treated as a rate limit.
AnyErrorIsRateLimited(e) == e # "ok"

\* rateLimitedError, ok := err.(*slack.RateLimitedError)
IsRateLimitedError(e) == e = RateLimitMsg

Kinds == {"getChannelByName", "getUserByName", "getChannelById",
          "getUserByEmail", "getUserGroupById", "getUserGroupByHandle",
          "getUserById", "getUsersInConversation"}

NameLookups == {"getChannelByName", "getUserByName"}

\* The provider in a specification that starts when it is configured.
Parked == [pc |-> "parked"]

\* The configuration in a specification that starts when Read has chosen
\* its routine.
NoConfig == [source |-> "none"]

\* A state nothing was saved to.
NoState == [set |-> FALSE]

\* resp.State.Set(ctx, &data) after the attributes were copied from the item.
StateOf(item) == [set |-> TRUE, item |-> item]

\* No second Read was run.
NoRead == [done |-> FALSE]

\* The remote methods that read: GetConversationsContext,
\* GetConversationInfoContext, page.Next of GetUsersPaginated,
\* GetUserInfoContext, GetUserByEmailContext, GetUsersContext,
\* GetUserGroupsContext, GetUsersInConversationContext.
ReadCalls == {"conversations.list", "conversations.info", "users.list",
              "users.info", "users.lookupByEmail", "users.list (all)",
              "usergroups.list", "conversations.members"}

\* resp.Diagnostics.AddError("Client Error", fmt.Sprintf(summary + "%s", err))
Diag(summary, e) == [summary |-> summary, detail |-> e]

ChannelLookups == {"getChannelByName", "getChannelById"}

UserLookups == {"getUserByName", "getUserByEmail", "getUserById"}

UserGroupLookups == {"getUserGroupById", "getUserGroupByHandle"}

\* The text before the error in the diagnostic of the data source that
\* runs k, in two parts.
UnableToFind(k) ==
    IF k \in ChannelLookups THEN <<"Unable to find channel", ", got error: ">>
    ELSE IF k \in UserLookups THEN <<"Unable to find user", ", got error: ">>
    ELSE IF k \in UserGroupLookups THEN <<"Unable to find User Group", ", got error: ">>
    ELSE <<"Unable to find channel", " members, got error: ">>

RECURSIVE Concat(_)
\* allMembers = append(allMembers, members...) over the pages received.
Concat(ps) ==
    IF ps = <<>> THEN <<>> ELSE ps[1].items \o Concat(Tail(ps))

\* The state ChannelMembersDataSource.Read saves: the id it was given and
\* the members of every page it received.
MembersState(id, ps) == [set |-> TRUE, item |-> DirectItem(id), members |-> Concat(ps)]

----------------------------------------------------------------------------
Init ==
    /\ kind \in Kinds
    /\ name \in Names
    /\ includeDeactivated \in (IF kind = "getUserByEmail" THEN BOOLEAN ELSE {FALSE})
    /\ pc = "call"
    /\ cursor = 0
    /\ previousResp = [set |-> FALSE, Cursor |-> 0]
    /\ ctxDone = FALSE
    /\ timerFired = FALSE
    /\ selected = "none"
    /\ rateLimits = 0
    /\ pages = <<>>
    /\ fetched = <<>>
    /\ result = Return(ZeroItem, Nil)
    /\ diags = <<>>
    /\ state = NoState
    /\ roundTrip = NoRead
    /\ remote = <<>>
    /\ tfstate = NoState
    /\ ops = <<>>
    /\ lookups = <<>>
    /\ provider = Parked
    /\ config = NoConfig

----------------------------------------------------------------------------
(* getChannelByName: one iteration of its loop is one request            *)

\* Mutant of GetConversationsPage: the empty cursor is tested before the
\* page is scanned, so a match on the last page is missed.
GetConversationsPageCursorFirst ==
    /\ kind = "getChannelByName"
    /\ pc = "call"
    /\ \E p \in PageResponses(PageIndex(cursor)) :
        LET idx == PageIndex(cursor)
            m == FirstMatch(p.items, name)
        IN  /\ pages' = Append(pages, p)
            /\ fetched' = Append(fetched, Request("conversations.list", cursor, "ok"))
            /\ IF p.next = 0
               THEN /\ pc' = "done"
                    /\ result' = Return(ZeroItem, ChannelNotFound)
                    /\ cursor' = cursor
               ELSE IF m # 0
               THEN /\ pc' = "done"
                    /\ result' = Return(Item(name, idx, m), Nil)
                    /\ cursor' = cursor
               ELSE /\ pc' = "call"
                    /\ result' = result
                    /\ cursor' = p.next
    /\ UNCHANGED <<readVars, resVars, lookups, provider, config>>
    /\ UNCHANGED <<kind, name, includeDeactivated, previousResp, ctxDone,
                   timerFired, selected, rateLimits>>

\* The loop body when GetConversationsContext returns a page: scan it,
\* return the first match, else fail on the last page, else follow the
\* cursor.
GetConversationsPage ==
    /\ kind = "getChannelByName"
    /\ pc = "call"
    /\ \E p \in PageResponses(PageIndex(cursor)) :
        LET idx == PageIndex(cursor)
            m == FirstMatch(p.items, name)
        IN  /\ pages' = Append(pages, p)
            /\ fetched' = Append(fetched, Request("conversations.list", cursor, "ok"))
            /\ IF m # 0
               THEN /\ pc' = "done"
                    /\ result' = Return(Item(name, idx, m), Nil)
                    /\ cursor' = cursor
               ELSE IF p.next = 0
               THEN /\ pc' = "done"
                    /\ result' = Return(ZeroItem, ChannelNotFound)
                    /\ cursor' = cursor
               ELSE /\ pc' = "call"
                    /\ result' = result
                    /\ cursor' = p.next
    /\ UNCHANGED <<readVars, resVars, lookups, provider, config>>
    /\ UNCHANGED <<kind, name, includeDeactivated, previousResp, ctxDone,
                   timerFired, selected, rateLimits>>

\* The loop body when GetConversationsContext returns an error.  A
\* rate-limit error enters the select statement; any other error ends the
\* loop and is returned wrapped by fmt.Errorf.
GetConversationsFailed ==
    /\ kind = "getChannelByName"
    /\ pc = "call"
    /\ \E e \in ErrMsgs \cup {RateLimitMsg} :
        /\ IsRateLimitedError(e) => rateLimits < MaxRateLimits
        /\ fetched' = Append(fetched, Request("conversations.list", cursor, e))
        /\ IF IsRateLimitedError(e)
           THEN /\ pc' = "select"
                /\ timerFired' = FALSE
                /\ rateLimits' = rateLimits + 1
                /\ result' = result
           ELSE /\ pc' = "done"
                /\ result' = Return(ZeroItem, ErrorListingChannels(e))
                /\ UNCHANGED <<timerFired, rateLimits>>
    /\ UNCHANGED <<readVars, resVars, lookups, provider, config>>
    /\ UNCHANGED <<kind, name, includeDeactivated, cursor, previousResp,
                   ctxDone, selected, pages>>

----------------------------------------------------------------------------
(* The select statement of both name lookups                               *)

\* The caller cancels the context (or its deadline passes).  A routine
\* parked in the select is woken with the ctx.Done() case.
Cancel ==
    /\ pc # "done"
    /\ ~ctxDone
    /\ ctxDone' = TRUE
    /\ IF pc = "parked"
       THEN pc' = "case" /\ selected' = "done"
       ELSE UNCHANGED <<pc, selected>>
    /\ UNCHANGED <<readVars, resVars, lookups, provider, config>>
    /\ UNCHANGED <<kind, name, includeDeactivated, cursor, previousResp,
                   timerFired, rateLimits, pages, fetched, result>>

\* RetryAfter elapses.  A routine parked in the select is woken with the
\* time.After case.
TimerFire ==
    /\ pc \in {"select", "parked"}
    /\ ~timerFired
    /\ timerFired' = TRUE
    /\ IF pc = "parked"
       THEN pc' = "case" /\ selected' = "timer"
       ELSE UNCHANGED <<pc, selected>>
    /\ UNCHANGED <<readVars, resVars, lookups, provider, config>>
    /\ UNCHANGED <<kind, name, includeDeactivated, cursor, previousResp,
                   ctxDone, rateLimits, pages, fetched, result>>

\* The cases of the select statement that can proceed.
ReadyCases ==
    {c \in {"done"} : ctxDone} \cup {c \in {"timer"} : timerFired}

\* select { case <-ctx.Done(): ... case <-time.After(RetryAfter): ... }
\* With no case ready the routine parks; with one or both ready, one of
\* the ready cases is chosen.
Select ==
    /\ pc = "select"
    /\ IF ReadyCases = {}
       THEN pc' = "parked" /\ selected' = selected
       ELSE pc' = "case" /\ selected' \in ReadyCases
    /\ UNCHANGED <<readVars, resVars, lookups, provider, config>>
    /\ UNCHANGED <<kind, name, includeDeactivated, cursor, previousResp,
                   ctxDone, timerFired, rateLimits, pages, fetched, result>>

\* What each name lookup returns once its loop has ended with err # nil.
LoopExit(k, key, e) ==
    IF k = "getChannelByName"
    THEN Return(ZeroItem, ErrorListingChannels(e))
    ELSE Return(ZeroItem, UserNotFound(key))

\* Mutant of RunCase: the ctx.Done() case clears err like the timer case.
RunCaseIgnoresCancel ==
    /\ pc = "case"
    /\ pc' = "call"
    /\ UNCHANGED <<readVars, resVars, lookups, provider, config>>
    /\ UNCHANGED <<kind, name, includeDeactivated, cursor, previousResp,
                   ctxDone, timerFired, selected, rateLimits, pages, fetched,
                   result>>

\* Mutant of RunCase: the timer case moves on to the next page.
RunCaseSkipsPage ==
    /\ pc = "case"
    /\ IF selected = "done"
       THEN /\ pc' = "done"
            /\ result' = LoopExit(kind, name, CtxErrMsg)
            /\ UNCHANGED <<cursor, previousResp>>
       ELSE /\ pc' = "call"
            /\ result' = result
            /\ cursor' = PageIndex(cursor) + 1
            /\ previousResp' = [set |-> TRUE, Cursor |-> PageIndex(previousResp.Cursor) + 1]
    /\ UNCHANGED <<readVars, resVars, lookups, provider, config>>
    /\ UNCHANGED <<kind, name, includeDeactivated, ctxDone, timerFired,
                   selected, rateLimits, pages, fetched>>

\* Mutant of RunCase: the timer case waits again instead of going back to
\* the request.
RunCaseWaitsAgain ==
    /\ pc = "case"
    /\ IF selected = "done"
       THEN /\ pc' = "done"
            /\ result' = LoopExit(kind, name, CtxErrMsg)
       ELSE /\ pc' = "select"
            /\ result' = result
    /\ UNCHANGED <<readVars, resVars, lookups, provider, config>>
    /\ UNCHANGED <<kind, name, includeDeactivated, cursor, previousResp,
                   ctxDone, timerFired, selected, rateLimits, pages, fetched>>

\* The body of the chosen case.  ctx.Done(): err = ctx.Err(), which ends
\* the loop.  time.After: err = nil, and the loop issues the request again
\* with the cursor it still holds.
RunCase ==
    /\ pc = "case"
    /\ IF selected = "done"
       THEN /\ pc' = "done"
            /\ result' = LoopExit(kind, name, CtxErrMsg)
       ELSE /\ pc' = "call"
            /\ result' = result
    /\ UNCHANGED <<readVars, resVars, lookups, provider, config>>
    /\ UNCHANGED <<kind, name, includeDeactivated, cursor, previousResp,
                   ctxDone, timerFired, selected, rateLimits, pages, fetched>>

----------------------------------------------------------------------------
(* getUserByName.  client.GetUsersPaginated() issues no request and its    *)
(* Users are empty, so the scan before the loop finds nothing; every       *)
(* iteration of the loop calls page.Next(ctx).                             *)

\* page.Next(ctx) after the last page: no request, a pagination-complete
\* error that is not a rate limit, so the loop ends.
UsersNextComplete ==
    /\ kind = "getUserByName"
    /\ pc = "call"
    /\ previousResp.set
    /\ previousResp.Cursor = 0
    /\ pc' = "done"
    /\ result' = Return(ZeroItem, UserNotFound(name))
    /\ UNCHANGED <<readVars, resVars, lookups, provider, config>>
    /\ UNCHANGED <<kind, name, includeDeactivated, cursor, previousResp,
                   ctxDone, timerFired, selected, rateLimits, pages, fetched>>

\* page.Next(ctx) returns the next page: scan it and return the first
\* match, else go round the loop again.
UsersNextPage ==
    /\ kind = "getUserByName"
    /\ pc = "call"
    /\ ~(previousResp.set /\ previousResp.Cursor = 0)
    /\ \E p \in PageResponses(PageIndex(previousResp.Cursor)) :
        LET idx == PageIndex(previousResp.Cursor)
            m == FirstMatch(p.items, name)
        IN  /\ pages' = Append(pages, p)
            /\ fetched' = Append(fetched, Request("users.list", previousResp.Cursor, "ok"))
            /\ previousResp' = [set |-> TRUE, Cursor |-> p.next]
            /\ IF m # 0
               THEN /\ pc' = "done"
                    /\ result' = Return(Item(name, idx, m), Nil)
               ELSE /\ pc' = "call"
                    /\ result' = result
    /\ UNCHANGED <<readVars, resVars, lookups, provider, config>>
    /\ UNCHANGED <<kind, name, includeDeactivated, cursor, ctxDone,
                   timerFired, selected, rateLimits>>

\* page.Next(ctx) returns an error and the page it was called on.  A
\* rate-limit error enters the select statement; any other error ends the
\* loop, and the routine returns its not-found error.
UsersNextFailed ==
    /\ kind = "getUserByName"
    /\ pc = "call"
    /\ ~(previousResp.set /\ previousResp.Cursor = 0)
    /\ \E e \in ErrMsgs \cup {RateLimitMsg} :
        /\ IsRateLimitedError(e) => rateLimits < MaxRateLimits
        /\ fetched' = Append(fetched, Request("users.list", previousResp.Cursor, e))
        /\ IF IsRateLimitedError(e)
           THEN /\ pc' = "select"
                /\ timerFired' = FALSE
                /\ rateLimits' = rateLimits + 1
                /\ result' = result
           ELSE /\ pc' = "done"
                /\ result' = LoopExit(kind, name, e)
                /\ UNCHANGED <<timerFired, rateLimits>>
    /\ UNCHANGED <<readVars, resVars, lookups, provider, config>>
    /\ UNCHANGED <<kind, name, includeDeactivated, cursor, previousResp,
                   ctxDone, selected, pages>>

----------------------------------------------------------------------------
(* Direct lookups                                                          *)

\* Mutant of GetChannelById: a failed request is issued once more before
\* the error is returned.
GetChannelByIdRetries ==
    /\ kind = "getChannelById"
    /\ pc = "call"
    /\ pc' = "done"
    /\ \/ /\ fetched' = Append(fetched, Request("conversations.info", 0, "ok"))
          /\ result' = Return(DirectItem(name), Nil)
       \/ \E e \in ErrMsgs \cup {RateLimitMsg} :
            /\ fetched' = fetched \o <<Request("conversations.info", 0, e),
                                      Request("conversations.info", 0, e)>>
            /\ result' = Return(ZeroItem, Verbatim(e))
    /\ UNCHANGED <<readVars, resVars, lookups, provider, config>>
    /\ UNCHANGED <<kind, name, includeDeactivated, cursor, previousResp,
                   ctxDone, timerFired, selected, rateLimits, pages>>

\* getChannelById: one GetConversationInfoContext request; its error,
\* whatever it is, is returned as it came.
GetChannelById ==
    /\ kind = "getChannelById"
    /\ pc = "call"
    /\ pc' = "done"
    /\ \/ /\ fetched' = Append(fetched, Request("conversations.info", 0, "ok"))
          /\ result' = Return(DirectItem(name), Nil)
       \/ \E e \in ErrMsgs \cup {RateLimitMsg} :
            /\ fetched' = Append(fetched, Request("conversations.info", 0, e))
            /\ result' = Return(ZeroItem, Verbatim(e))
    /\ UNCHANGED <<readVars, resVars, lookups, provider, config>>
    /\ UNCHANGED <<kind, name, includeDeactivated, cursor, previousResp,
                   ctxDone, timerFired, selected, rateLimits, pages>>

\* UserDataSource.Read with an id: one GetUserInfoContext request.
GetUserInfo ==
    /\ kind = "getUserById"
    /\ pc = "call"
    /\ pc' = "done"
    /\ \/ /\ fetched' = Append(fetched, Request("users.info", 0, "ok"))
          /\ result' = Return(DirectItem(name), Nil)
       \/ \E e \in ErrMsgs \cup {RateLimitMsg} :
            /\ fetched' = Append(fetched, Request("users.info", 0, e))
            /\ result' = Return(ZeroItem, Verbatim(e))
    /\ UNCHANGED <<readVars, resVars, lookups, provider, config>>
    /\ UNCHANGED <<kind, name, includeDeactivated, cursor, previousResp,
                   ctxDone, timerFired, selected, rateLimits, pages>>

\* Mutant of GetUserByEmail: a users_not_found error falls through to the
\* listing whatever includeDeactivated says.
GetUserByEmailAlwaysLists ==
    /\ kind = "getUserByEmail"
    /\ pc = "call"
    /\ \/ /\ fetched' = Append(fetched, Request("users.lookupByEmail", 0, "ok"))
          /\ pc' = "done"
          /\ result' = Return(DirectItem(name), Nil)
       \/ \E e \in ErrMsgs \cup {RateLimitMsg} :
            /\ fetched' = Append(fetched, Request("users.lookupByEmail", 0, e))
            /\ IF e = "users_not_found"
               THEN pc' = "list" /\ result' = result
               ELSE pc' = "done" /\ result' = Return(ZeroItem, Verbatim(e))
    /\ UNCHANGED <<readVars, resVars, lookups, provider, config>>
    /\ UNCHANGED <<kind, name, includeDeactivated, cursor, previousResp,
                   ctxDone, timerFired, selected, rateLimits, pages>>

\* getUserByEmail, first half: GetUserByEmailContext.  A users_not_found
\* error with includeDeactivated set falls through to the listing; every
\* other error is returned as it came.
GetUserByEmail ==
    /\ kind = "getUserByEmail"
    /\ pc = "call"
    /\ \/ /\ fetched' = Append(fetched, Request("users.lookupByEmail", 0, "ok"))
          /\ pc' = "done"
          /\ result' = Return(DirectItem(name), Nil)
       \/ \E e \in ErrMsgs \cup {RateLimitMsg} :
            /\ fetched' = Append(fetched, Request("users.lookupByEmail", 0, e))
            /\ IF e = "users_not_found" /\ includeDeactivated
               THEN pc' = "list" /\ result' = result
               ELSE pc' = "done" /\ result' = Return(ZeroItem, Verbatim(e))
    /\ UNCHANGED <<readVars, resVars, lookups, provider, config>>
    /\ UNCHANGED <<kind, name, includeDeactivated, cursor, previousResp,
                   ctxDone, timerFired, selected, rateLimits, pages>>

\* getUserByEmail, second half: GetUsersContext returns the whole user
\* list (it retries rate limits itself) or an error; the list is scanned
\* for the first user with the email.
GetUsersScan ==
    /\ kind = "getUserByEmail"
    /\ pc = "list"
    /\ pc' = "done"
    /\ \/ \E users \in SeqsUpTo(Names, MaxPageLen) :
            LET m == FirstMatch(users, name)
            IN  /\ pages' = Append(pages, [items |-> users, next |-> 0])
                /\ fetched' = Append(fetched, Request("users.list (all)", 0, "ok"))
                /\ result' = IF m # 0
                             THEN Return(Item(name, 1, m), Nil)
                             ELSE Return(ZeroItem, UserNotFound(name))
       \/ \E e \in ErrMsgs :
            /\ fetched' = Append(fetched, Request("users.list (all)", 0, e))
            /\ result' = Return(ZeroItem, Verbatim(e))
            /\ pages' = pages
    /\ UNCHANGED <<readVars, resVars, lookups, provider, config>>
    /\ UNCHANGED <<kind, name, includeDeactivated, cursor, previousResp,
                   ctxDone, timerFired, selected, rateLimits>>

\* UserGroupDataSource.Read: GetUserGroupsContext returned the list of user
\* groups; getUserGroupById (getUserGroupByHandle) returns the first group
\* whose ID (Handle) equals the key.
GetUserGroup ==
    /\ kind \in {"getUserGroupById", "getUserGroupByHandle"}
    /\ pc = "call"
    /\ pc' = "done"
    /\ \E userGroups \in SeqsUpTo(Names, MaxPageLen) :
        LET m == FirstMatch(userGroups, name)
        IN  /\ pages' = Append(pages, [items |-> userGroups, next |-> 0])
            /\ fetched' = Append(fetched, Request("usergroups.list", 0, "ok"))
            /\ result' = IF m # 0
                         THEN Return(Item(name, 1, m), Nil)
                         ELSE Return(ZeroItem, UserGroupNotFound(name))
    /\ UNCHANGED <<readVars, resVars, lookups, provider, config>>
    /\ UNCHANGED <<kind, name, includeDeactivated, cursor, previousResp,
                   ctxDone, timerFired, selected, rateLimits>>

\* UserGroupDataSource.Read: GetUserGroupsContext failed.  Read adds the
\* error diagnostic and returns; neither helper is called.
GetUserGroupsFailed ==
    /\ kind \in {"getUserGroupById", "getUserGroupByHandle"}
    /\ pc = "call"
    /\ pc' = "done"
    /\ \E e \in ErrMsgs \cup {RateLimitMsg} :
        /\ fetched' = Append(fetched, Request("usergroups.list", 0, e))
        /\ diags' = Append(diags, Diag(UnableToFind(kind), Verbatim(e)))
    /\ UNCHANGED <<state, roundTrip, resVars, lookups, provider, config>>
    /\ UNCHANGED <<kind, name, includeDeactivated, cursor, previousResp,
                   ctxDone, timerFired, selected, rateLimits, pages, result>>

\* Mutant of GetUsersInConversation: the provider joins the channel before
\* it lists the members.
GetUsersInConversationJoins ==
    /\ kind = "getUsersInConversation"
    /\ pc = "call"
    /\ \E p \in PageResponses(PageIndex(cursor)) :
            /\ pages' = Append(pages, p)
            /\ fetched' = fetched \o <<Request("conversations.join", cursor, "ok"),
                                      Request("conversations.members", cursor, "ok")>>
            /\ cursor' = p.next
            /\ diags' = diags
            /\ IF p.next = 0
               THEN /\ pc' = "done"
                    /\ state' = MembersState(name, pages')
               ELSE /\ pc' = "call"
                    /\ state' = state
    /\ UNCHANGED <<roundTrip, resVars, lookups, provider, config>>
    /\ UNCHANGED <<kind, name, includeDeactivated, previousResp, ctxDone,
                   timerFired, selected, rateLimits, result>>

\* Mutant of GetUsersInConversation: allMembers is assigned the members of
\* the page instead of being appended to.
GetUsersInConversationKeepsLastPage ==
    /\ kind = "getUsersInConversation"
    /\ pc = "call"
    /\ \/ \E p \in PageResponses(PageIndex(cursor)) :
            /\ pages' = Append(pages, p)
            /\ fetched' = Append(fetched, Request("conversations.members", cursor, "ok"))
            /\ cursor' = p.next
            /\ diags' = diags
            /\ IF p.next = 0
               THEN /\ pc' = "done"
                    /\ state' = MembersState(name, <<p>>)
               ELSE /\ pc' = "call"
                    /\ state' = state
       \/ \E e \in ErrMsgs \cup {RateLimitMsg} :
            /\ fetched' = Append(fetched, Request("conversations.members", cursor, e))
            /\ diags' = Append(diags, Diag(UnableToFind(kind), Verbatim(e)))
            /\ cursor' = 0
            /\ pages' = pages
            /\ pc' = "done"
            /\ state' = MembersState(name, <<>>)
    /\ UNCHANGED <<roundTrip, resVars, lookups, provider, config>>
    /\ UNCHANGED <<kind, name, includeDeactivated, previousResp, ctxDone,
                   timerFired, selected, rateLimits, result>>

\* ChannelMembersDataSource.Read: one GetUsersInConversationContext request
\* of the first call or of the loop `for next != ""`.  An error is added to
\* the diagnostics and comes with an empty cursor, so the loop ends.  When
\* the loop has ended the members collected are saved to the state.
GetUsersInConversation ==
    /\ kind = "getUsersInConversation"
    /\ pc = "call"
    /\ \/ \E p \in PageResponses(PageIndex(cursor)) :
            /\ pages' = Append(pages, p)
            /\ fetched' = Append(fetched, Request("conversations.members", cursor, "ok"))
            /\ cursor' = p.next
            /\ diags' = diags
            /\ IF p.next = 0
               THEN /\ pc' = "done"
                    /\ state' = MembersState(name, pages')
               ELSE /\ pc' = "call"
                    /\ state' = state
       \/ \E e \in ErrMsgs \cup {RateLimitMsg} :
            /\ fetched' = Append(fetched, Request("conversations.members", cursor, e))
            /\ diags' = Append(diags, Diag(UnableToFind(kind), Verbatim(e)))
            /\ cursor' = 0
            /\ pages' = pages
            /\ pc' = "done"
            /\ state' = MembersState(name, pages)
    /\ UNCHANGED <<roundTrip, resVars, lookups, provider, config>>
    /\ UNCHANGED <<kind, name, includeDeactivated, previousResp, ctxDone,
                   timerFired, selected, rateLimits, result>>

----------------------------------------------------------------------------
(* The rest of a data source's Read, after the routine has returned        *)

\* Read has returned: it added an error diagnostic or saved its state.
ReadDone == diags # <<>> \/ state.set

\* Mutant of DataSourceRead: the routine's error is dropped and the state
\* is saved from whatever item Read holds.
DataSourceReadDropsError ==
    /\ kind # "getUsersInConversation"
    /\ pc = "done"
    /\ ~ReadDone
    /\ diags' = diags
    /\ state' = StateOf(result.item)
    /\ UNCHANGED <<lookupVars, roundTrip, resVars, lookups, provider, config>>

\* ChannelDataSource.Read adds the error diagnostic and goes on to save the
\* state from the channel it holds; UserDataSource.Read and
\* UserGroupDataSource.Read return after the diagnostic and save the state
\* only when the routine returned no error.
DataSourceRead ==
    /\ kind # "getUsersInConversation"
    /\ pc = "done"
    /\ ~ReadDone
    /\ IF result.err # Nil
       THEN /\ diags' = Append(diags, Diag(UnableToFind(kind), result.err))
            /\ state' = IF kind \in ChannelLookups
                        THEN StateOf(result.item)
                        ELSE state
       ELSE /\ diags' = diags
            /\ state' = StateOf(result.item)
    /\ UNCHANGED <<lookupVars, roundTrip, resVars, lookups, provider, config>>

\* The data sources' lookups by name and by handle.
NameKeyedLookups == {"getChannelByName", "getUserByName", "getUserGroupByHandle"}

\* The item of the workspace that has the given ID.
ItemById(id) == [key |-> pages[id[1]].items[id[2]], pos |-> id]

\* A second Read of the same data source, configured with the id the first
\* Read saved.  ChannelDataSource.Read calls getChannelById,
\* UserDataSource.Read calls GetUserInfoContext, UserGroupDataSource.Read
\* lists the groups again and calls getUserGroupById.  The workspace still
\* holds what the first Read saw.  On an error all three add the
\* diagnostic; only ChannelDataSource.Read goes on to save a state.
ReadAgainById ==
    /\ kind \in NameKeyedLookups
    /\ pc = "done"
    /\ state.set
    /\ diags = <<>>
    /\ ~roundTrip.done
    /\ LET id == state.item.pos
       IN  \/ roundTrip' = [done |-> TRUE, id |-> id, diags |-> <<>>,
                            state |-> StateOf(ItemById(id))]
           \/ \E e \in ErrMsgs \cup {RateLimitMsg} :
                roundTrip' = [done |-> TRUE, id |-> id,
                              diags |-> <<Diag(UnableToFind(kind), Verbatim(e))>>,
                              state |-> IF kind \in ChannelLookups
                                        THEN StateOf(ZeroItem)
                                        ELSE NoState]
    /\ UNCHANGED <<lookupVars, diags, state, resVars, lookups, provider, config>>

----------------------------------------------------------------------------
Next ==
    \/ GetConversationsPage
    \/ GetConversationsFailed
    \/ UsersNextComplete
    \/ UsersNextPage
    \/ UsersNextFailed
    \/ Cancel
    \/ TimerFire
    \/ Select
    \/ RunCase
    \/ GetChannelById
    \/ GetUserByEmail
    \/ GetUsersScan
    \/ GetUserGroup
    \/ GetUserGroupsFailed
    \/ GetUserInfo
    \/ GetUsersInConversation
    \/ DataSourceRead
    \/ ReadAgainById

Spec == Init /\ [][Next]_vars

\* One call of getChannelByName or getUserByName.
NameLookupInit == Init /\ kind \in NameLookups

\* The steps of the two name lookups and of their environment.
NameLookupNext ==
    \/ GetConversationsPage
    \/ GetConversationsFailed
    \/ UsersNextComplete
    \/ UsersNextPage
    \/ UsersNextFailed
    \/ Cancel
    \/ TimerFire
    \/ Select
    \/ RunCase

\* The name lookups under a scheduler that keeps running them: a request
\* that was issued is answered, a timer that was set fires or the context
\* is cancelled, and a routine that can take a step takes one.
FairSpec == NameLookupInit /\ [][NameLookupNext]_vars /\ WF_vars(NameLookupNext)

----------------------------------------------------------------------------
(* Two getChannelByName calls running concurrently on the same client and *)
(* the same workspace.  Each call has its own locals (cursor, err, the     *)
(* page it received); the client is only read.  A request and its response *)
(* are separate steps, so the two calls interleave between them.  `pages`  *)
(* is the workspace's list of channels: page idx is fixed the first time   *)
(* either call receives it and is the same for whoever asks again.  The    *)
(* context is not cancelled here; a rate-limited request is issued again   *)
(* after RetryAfter.                                                       *)

Procs == {1, 2}

\* The locals of one call at its start; last is the outcome of its latest
\* request.
Locals(n) == [name |-> n, pc |-> "call", cursor |-> 0, inFlight |-> 0,
              rateLimits |-> 0, last |-> "none",
              result |-> Return(ZeroItem, Nil)]

ConcurrentInit ==
    /\ kind = "concurrent"
    /\ name = ""
    /\ includeDeactivated = FALSE
    /\ pc = "concurrent"
    /\ cursor = 0
    /\ previousResp = [set |-> FALSE, Cursor |-> 0]
    /\ ctxDone = FALSE
    /\ timerFired = FALSE
    /\ selected = "none"
    /\ rateLimits = 0
    /\ pages = <<>>
    /\ fetched = <<>>
    /\ result = Return(ZeroItem, Nil)
    /\ diags = <<>>
    /\ state = NoState
    /\ roundTrip = NoRead
    /\ remote = <<>>
    /\ tfstate = NoState
    /\ ops = <<>>
    /\ \E n1 \in Names, n2 \in Names : lookups = <<Locals(n1), Locals(n2)>>
    /\ provider = Parked
    /\ config = NoConfig

\* What the workspace returns for page idx: the page it already handed
\* out, or a page fixed now.
WorkspacePages(idx) ==
    IF idx <= Len(pages) THEN {pages[idx]} ELSE PageResponses(idx)

\* client.GetConversationsContext is called: the request is in flight.
ConcurrentRequest(p) ==
    /\ lookups[p].pc = "call"
    /\ lookups' = [lookups EXCEPT ![p].pc = "wait",
                                  ![p].inFlight = @ + 1]
    /\ UNCHANGED <<lookupVars, readVars, resVars, provider, config>>

\* Mutant of ConcurrentPage: the cursor is a variable shared by all calls.
ConcurrentPageSharedCursor(p) ==
    /\ lookups[p].pc = "wait"
    /\ \E pg \in WorkspacePages(PageIndex(lookups[p].cursor)) :
        LET me == lookups[p]
            idx == PageIndex(me.cursor)
            m == FirstMatch(pg.items, me.name)
        IN  /\ pages' = IF idx <= Len(pages) THEN pages ELSE Append(pages, pg)
            /\ lookups' =
                 IF m # 0
                 THEN [lookups EXCEPT ![p] = [me EXCEPT !.pc = "done", !.inFlight = @ - 1,
                            !.last = "ok",
                            !.result = Return(Item(me.name, idx, m), Nil)]]
                 ELSE IF pg.next = 0
                 THEN [lookups EXCEPT ![p] = [me EXCEPT !.pc = "done", !.inFlight = @ - 1,
                            !.last = "ok",
                            !.result = Return(ZeroItem, ChannelNotFound)]]
                 ELSE [q \in Procs |->
                        IF q = p
                        THEN [me EXCEPT !.pc = "call", !.inFlight = @ - 1,
                                        !.last = "ok", !.cursor = pg.next]
                        ELSE [lookups[q] EXCEPT !.cursor = pg.next]]
    /\ UNCHANGED <<kind, name, includeDeactivated, pc, cursor, previousResp,
                   ctxDone, timerFired, selected, rateLimits, fetched, result>>
    /\ UNCHANGED <<readVars, resVars, provider, config>>

\* The response is a page: the loop body of getChannelByName on the
\* call's own cursor.
ConcurrentPage(p) ==
    /\ lookups[p].pc = "wait"
    /\ \E pg \in WorkspacePages(PageIndex(lookups[p].cursor)) :
        LET me == lookups[p]
            idx == PageIndex(me.cursor)
            m == FirstMatch(pg.items, me.name)
        IN  /\ pages' = IF idx <= Len(pages) THEN pages ELSE Append(pages, pg)
            /\ lookups' = [lookups EXCEPT ![p] =
                 IF m # 0
                 THEN [me EXCEPT !.pc = "done", !.inFlight = @ - 1,
                            !.last = "ok",
                            !.result = Return(Item(me.name, idx, m), Nil)]
                 ELSE IF pg.next = 0
                 THEN [me EXCEPT !.pc = "done", !.inFlight = @ - 1,
                            !.last = "ok",
                            !.result = Return(ZeroItem, ChannelNotFound)]
                 ELSE [me EXCEPT !.pc = "call", !.inFlight = @ - 1,
                            !.last = "ok", !.cursor = pg.next]]
    /\ UNCHANGED <<kind, name, includeDeactivated, pc, cursor, previousResp,
                   ctxDone, timerFired, selected, rateLimits, fetched, result>>
    /\ UNCHANGED <<readVars, resVars, provider, config>>

\* The response is an error.  After a rate-limit error and RetryAfter the
\* request is issued again with the same cursor; any other error ends the
\* loop and is returned wrapped.
ConcurrentFailed(p) ==
    /\ lookups[p].pc = "wait"
    /\ \E e \in ErrMsgs \cup {RateLimitMsg} :
        LET me == lookups[p]
        IN  /\ IsRateLimitedError(e) => me.rateLimits < MaxRateLimits
            /\ lookups' = [lookups EXCEPT ![p] =
                 IF IsRateLimitedError(e)
                 THEN [me EXCEPT !.pc = "call", !.inFlight = @ - 1,
                            !.last = e, !.rateLimits = @ + 1]
                 ELSE [me EXCEPT !.pc = "done", !.inFlight = @ - 1,
                            !.last = e,
                            !.result = Return(ZeroItem, ErrorListingChannels(e))]]
    /\ UNCHANGED <<lookupVars, readVars, resVars, provider, config>>

ConcurrentNext ==
    \E p \in Procs :
        \/ ConcurrentRequest(p)
        \/ ConcurrentPage(p)
        \/ ConcurrentFailed(p)

ConcurrentSpec == ConcurrentInit /\ [][ConcurrentNext]_vars

----------------------------------------------------------------------------
(* The managed resources: ChannelResource and UserGroupResource.  `remote` *)
(* is the list of channels (user groups) of the workspace, an object's ID  *)
(* being its place in the list; the provider changes it, and a channel may *)
(* leave the workspace before it is deleted.  Terraform                    *)
(* calls one handler at a time.  A handler is one step: its remote calls   *)
(* run in the order of the code and the one named by failAt returns an     *)
(* error, which ends the handler with an error diagnostic.  A write        *)
(* endpoint stores the value it is given.                                  *)

Topics == {"", "t"}

Descriptions == {"", "d"}

Handles == {"", "h", "g"}

\* req.Plan of a channel; an omitted is_private, topic or description has
\* its schema default (false, "", "").
ChannelPlans ==
    [name : Names, is_private : BOOLEAN, topic : Topics, description : Descriptions]

\* req.Plan of a user group; an omitted handle or description is "".
UserGroupPlans ==
    [name : Names, handle : Handles, description : Descriptions]

NoPlan == [none |-> TRUE]

\* data.Id = channel.ID ... data.Description = channel.Purpose.Value
ChannelState(id, c) ==
    [set |-> TRUE, id |-> id, name |-> c.name, is_private |-> c.is_private,
     topic |-> c.topic, description |-> c.purpose]

\* data.Id = userGroup.ID ... data.Handle = userGroup.Handle
UserGroupState(id, g) ==
    [set |-> TRUE, id |-> id, name |-> g.name, handle |-> g.handle,
     description |-> g.description]

\* resource.ImportStatePassthroughID: a state that holds the id only.
IdOnly(id) == [set |-> TRUE, id |-> id]

IsIdOnly(s) == DOMAIN s = {"set", "id"}

\* One operation in `ops`: the handler, whether it ended without an error
\* diagnostic, the plan it was given, the remote calls it issued and the
\* state Terraform holds after it.
Op(op, ok, plan, calls, saved) ==
    [op |-> op, ok |-> ok, plan |-> plan, calls |-> calls, saved |-> saved]

\* What `ops` keeps of the operation before the last one.
Earlier(e) == [op |-> e.op, ok |-> e.ok, saved |-> e.saved]

\* `ops` keeps the last two operations.
Remember(e) == IF ops = <<>> THEN <<e>> ELSE <<Earlier(ops[Len(ops)]), e>>

\* A channel after ArchiveConversationContext, a user group after
\* DisableUserGroupContext: the provider does not read its attributes
\* again.
Retired == [archived |-> TRUE, disabled |-> TRUE]

\* Terraform plans an update or a delete against a state that the last
\* operation saved or refreshed: after a failed apply and after
\* ImportState it runs Read first.
Refreshed ==
    /\ tfstate.set
    /\ ~IsIdOnly(tfstate)
    /\ ops # <<>>
    /\ ops[Len(ops)].ok
    /\ ops[Len(ops)].op \in {"create", "update", "read"}

\* The prefix of the calls of a handler that were issued when the call
\* failAt failed: all of them when none failed.
RECURSIVE Issued(_, _)
Issued(calls, failAt) ==
    IF calls = <<>> THEN <<>>
    ELSE IF Head(calls) = failAt THEN <<failAt>>
    ELSE <<Head(calls)>> \o Issued(Tail(calls), failAt)

\* The call c was issued and did not fail.
Done(calls, failAt, c) ==
    /\ \E i \in 1..Len(Issued(calls, failAt)) : Issued(calls, failAt)[i] = c
    /\ c # failAt

ResourceInit ==
    /\ kind \in {"ChannelResource", "UserGroupResource"}
    /\ name = ""
    /\ includeDeactivated = FALSE
    /\ pc = "resource"
    /\ cursor = 0
    /\ previousResp = [set |-> FALSE, Cursor |-> 0]
    /\ ctxDone = FALSE
    /\ timerFired = FALSE
    /\ selected = "none"
    /\ rateLimits = 0
    /\ pages = <<>>
    /\ fetched = <<>>
    /\ result = Return(ZeroItem, Nil)
    /\ diags = <<>>
    /\ state = NoState
    /\ roundTrip = NoRead
    /\ lookups = <<>>
    /\ provider = Parked
    /\ config = NoConfig
    /\ remote = <<>>
    /\ tfstate = NoState
    /\ ops = <<>>

\* The remote calls ChannelResource.Create makes for a plan.
ChannelCreateCalls(plan) ==
    <<"conversations.create">>
    \o (IF plan.description # "" THEN <<"conversations.setPurpose">> ELSE <<>>)
    \o (IF plan.topic # "" THEN <<"conversations.setTopic">> ELSE <<>>)
    \o <<"conversations.info">>

\* ChannelResource.Create
ChannelCreate ==
    /\ kind = "ChannelResource"
    /\ ~tfstate.set
    /\ Len(remote) < MaxChannels
    /\ \E plan \in ChannelPlans :
       \E failAt \in {"none"} \cup {ChannelCreateCalls(plan)[i] : i \in DOMAIN ChannelCreateCalls(plan)} :
        LET calls == ChannelCreateCalls(plan)
            id == Len(remote) + 1
            created == [name |-> plan.name, is_private |-> plan.is_private,
                        topic |-> "", purpose |-> "", archived |-> FALSE]
            c1 == IF Done(calls, failAt, "conversations.setPurpose")
                  THEN [created EXCEPT !.purpose = plan.description] ELSE created
            c2 == IF Done(calls, failAt, "conversations.setTopic")
                  THEN [c1 EXCEPT !.topic = plan.topic] ELSE c1
        IN  /\ remote' = IF Done(calls, failAt, "conversations.create")
                         THEN Append(remote, c2) ELSE remote
            /\ tfstate' = IF failAt = "none" THEN ChannelState(id, c2) ELSE tfstate
            /\ ops' = Remember(Op("create", failAt = "none", plan,
                                  Issued(calls, failAt), tfstate'))
    /\ UNCHANGED <<lookupVars, readVars, lookups, provider, config>>

\* ChannelResource.Read
ChannelRead ==
    /\ kind = "ChannelResource"
    /\ tfstate.set
    /\ \E failAt \in {"none", "conversations.info"} :
        /\ tfstate' = IF failAt = "none"
                      THEN ChannelState(tfstate.id, remote[tfstate.id])
                      ELSE tfstate
        /\ ops' = Remember(Op("read", failAt = "none", NoPlan,
                              <<"conversations.info">>, tfstate'))
    /\ UNCHANGED <<lookupVars, readVars, lookups, remote, provider, config>>

\* Mutant of ChannelUpdateCalls: like Create, Update writes a description
\* or a topic only when the plan's value is not empty.
ChannelUpdateCallsSkipEmpty(plan, st) ==
    (IF plan.name # st.name THEN <<"conversations.rename">> ELSE <<>>)
    \o (IF plan.description # st.description /\ plan.description # ""
        THEN <<"conversations.setPurpose">> ELSE <<>>)
    \o (IF plan.topic # st.topic /\ plan.topic # ""
        THEN <<"conversations.setTopic">> ELSE <<>>)
    \o <<"conversations.info">>

\* Mutant of ChannelUpdateCalls: the topic is written before the
\* description.
ChannelUpdateCallsTopicFirst(plan, st) ==
    (IF plan.name # st.name THEN <<"conversations.rename">> ELSE <<>>)
    \o (IF plan.topic # st.topic THEN <<"conversations.setTopic">> ELSE <<>>)
    \o (IF plan.description # st.description THEN <<"conversations.setPurpose">> ELSE <<>>)
    \o <<"conversations.info">>

\* The remote calls ChannelResource.Update makes for a plan and a state.
ChannelUpdateCalls(plan, st) ==
    (IF plan.name # st.name THEN <<"conversations.rename">> ELSE <<>>)
    \o (IF plan.description # st.description THEN <<"conversations.setPurpose">> ELSE <<>>)
    \o (IF plan.topic # st.topic THEN <<"conversations.setTopic">> ELSE <<>>)
    \o <<"conversations.info">>

\* The plan differs from the state in some attribute.
ChannelPlanDiffers(plan, st) ==
    \/ plan.name # st.name
    \/ plan.is_private # st.is_private
    \/ plan.topic # st.topic
    \/ plan.description # st.description

\* ChannelResource.Update
ChannelUpdate ==
    /\ kind = "ChannelResource"
    /\ Refreshed
    /\ \E plan \in ChannelPlans :
       \E failAt \in {"none"} \cup {ChannelUpdateCalls(plan, tfstate)[i] :
                                        i \in DOMAIN ChannelUpdateCalls(plan, tfstate)} :
        LET calls == ChannelUpdateCalls(plan, tfstate)
            id == tfstate.id
            c0 == remote[id]
            c1 == IF Done(calls, failAt, "conversations.rename")
                  THEN [c0 EXCEPT !.name = plan.name] ELSE c0
            c2 == IF Done(calls, failAt, "conversations.setPurpose")
                  THEN [c1 EXCEPT !.purpose = plan.description] ELSE c1
            c3 == IF Done(calls, failAt, "conversations.setTopic")
                  THEN [c2 EXCEPT !.topic = plan.topic] ELSE c2
        IN  /\ ChannelPlanDiffers(plan, tfstate)
            /\ remote' = [remote EXCEPT ![id] = c3]
            /\ tfstate' = IF failAt = "none" THEN ChannelState(id, c3) ELSE tfstate
            /\ ops' = Remember(Op("update", failAt = "none", plan,
                                  Issued(calls, failAt), tfstate'))
    /\ UNCHANGED <<lookupVars, readVars, lookups, provider, config>>

\* The operation Delete of a channel in `ops`, with the answer of the
\* archive call.
DeleteOp(ok, answer, saved) ==
    [op |-> "delete", ok |-> ok, plan |-> NoPlan,
     calls |-> <<"conversations.archive">>, saved |-> saved, answer |-> answer]

\* Mutant of ChannelDelete: channel_not_found is reported like every other
\* error.
ChannelDeleteReportsNotFound ==
    /\ kind = "ChannelResource"
    /\ Refreshed
    /\ \E outcome \in {"ok", "channel_not_found", "invalid_auth"} :
        /\ remote' = IF outcome \in {"ok", "channel_not_found"}
                     THEN [remote EXCEPT ![tfstate.id] = Retired]
                     ELSE remote
        /\ tfstate' = IF outcome = "ok" THEN NoState ELSE tfstate
        /\ ops' = Remember(DeleteOp(outcome = "ok", outcome, tfstate'))
    /\ UNCHANGED <<lookupVars, readVars, lookups, provider, config>>

\* ChannelResource.Delete: the channel is archived.  A channel_not_found
\* error ends Delete without a diagnostic; any other error is reported.
\* Terraform drops the resource from its state when Delete reports none.
\* The endpoint answers channel_not_found when the channel has left the
\* workspace by other means since the state was refreshed.
ChannelDelete ==
    /\ kind = "ChannelResource"
    /\ Refreshed
    /\ \E outcome \in {"ok", "channel_not_found", "invalid_auth"} :
        /\ remote' = IF outcome \in {"ok", "channel_not_found"}
                     THEN [remote EXCEPT ![tfstate.id] = Retired]
                     ELSE remote
        /\ tfstate' = IF outcome \in {"ok", "channel_not_found"} THEN NoState ELSE tfstate
        /\ ops' = Remember(DeleteOp(outcome \in {"ok", "channel_not_found"},
                                    outcome, tfstate'))
    /\ UNCHANGED <<lookupVars, readVars, lookups, provider, config>>

\* UserGroupResource.Create: the state is saved from the group that
\* CreateUserGroupContext returns.
UserGroupCreate ==
    /\ kind = "UserGroupResource"
    /\ ~tfstate.set
    /\ Len(remote) < MaxUserGroups
    /\ \E plan \in UserGroupPlans :
       \E failAt \in {"none", "usergroups.create"} :
        LET id == Len(remote) + 1
            created == [name |-> plan.name, handle |-> plan.handle,
                        description |-> plan.description, disabled |-> FALSE]
        IN  /\ remote' = IF failAt = "none" THEN Append(remote, created) ELSE remote
            /\ tfstate' = IF failAt = "none" THEN UserGroupState(id, created) ELSE tfstate
            /\ ops' = Remember(Op("create", failAt = "none", plan,
                                  <<"usergroups.create">>, tfstate'))
    /\ UNCHANGED <<lookupVars, readVars, lookups, provider, config>>

\* The IDs of the user groups GetUserGroupsContext lists: the enabled ones.
ListedUserGroups == {i \in DOMAIN remote : ~remote[i].disabled}

\* Mutant of UserGroupRead: Read refreshes the name and the description
\* and leaves the handle as the state has it.
UserGroupReadKeepsHandle ==
    /\ kind = "UserGroupResource"
    /\ tfstate.set
    /\ \E failAt \in {"none", "usergroups.list"} :
        LET found == failAt = "none" /\ tfstate.id \in ListedUserGroups
            kept == IF IsIdOnly(tfstate) THEN "" ELSE tfstate.handle
        IN  /\ tfstate' = IF found
                          THEN [UserGroupState(tfstate.id, remote[tfstate.id])
                                    EXCEPT !.handle = kept]
                          ELSE tfstate
            /\ ops' = Remember(Op("read", found, NoPlan, <<"usergroups.list">>, tfstate'))
    /\ UNCHANGED <<lookupVars, readVars, lookups, remote, provider, config>>

\* UserGroupResource.Read: the groups are listed and getUserGroupById
\* picks the one with the state's id; the id itself is left as it is.
UserGroupRead ==
    /\ kind = "UserGroupResource"
    /\ tfstate.set
    /\ \E failAt \in {"none", "usergroups.list"} :
        LET found == failAt = "none" /\ tfstate.id \in ListedUserGroups
        IN  /\ tfstate' = IF found
                          THEN UserGroupState(tfstate.id, remote[tfstate.id])
                          ELSE tfstate
            /\ ops' = Remember(Op("read", found, NoPlan, <<"usergroups.list">>, tfstate'))
    /\ UNCHANGED <<lookupVars, readVars, lookups, remote, provider, config>>

UserGroupPlanDiffers(plan, st) ==
    \/ plan.name # st.name
    \/ plan.handle # st.handle
    \/ plan.description # st.description

\* Mutant of HandleRequiresReplace: every change of a handle that is set
\* requires replacement.
HandleRequiresReplaceOnChange(stateValue, planValue) ==
    ~(stateValue = "") /\ planValue # stateValue

\* RequiresReplaceIf of the handle attribute.
HandleRequiresReplace(stateValue, planValue) ==
    ~(stateValue = "") /\ planValue = ""

\* Mutant of UserGroupUpdate: an empty description in the plan is not sent,
\* so the group keeps the description it has.
UserGroupUpdateOmitsEmptyDescription ==
    /\ kind = "UserGroupResource"
    /\ Refreshed
    /\ \E plan \in UserGroupPlans :
       \E failAt \in {"none", "usergroups.update"} :
        LET id == tfstate.id
            updated == [remote[id] EXCEPT !.name = plan.name,
                                          !.handle = plan.handle,
                                          !.description =
                                              IF plan.description = ""
                                              THEN remote[id].description
                                              ELSE plan.description]
        IN  /\ UserGroupPlanDiffers(plan, tfstate)
            /\ ~HandleRequiresReplace(tfstate.handle, plan.handle)
            /\ remote' = IF failAt = "none" THEN [remote EXCEPT ![id] = updated] ELSE remote
            /\ tfstate' = IF failAt = "none" THEN UserGroupState(id, updated) ELSE tfstate
            /\ ops' = Remember(Op("update", failAt = "none", plan,
                                  <<"usergroups.update">>, tfstate'))
    /\ UNCHANGED <<lookupVars, readVars, lookups, provider, config>>

\* UserGroupResource.Update: one UpdateUserGroupContext call with the
\* plan's name, handle and description; the state is saved from the group
\* it returns.  Terraform replaces the resource instead when the handle
\* requires it.
UserGroupUpdate ==
    /\ kind = "UserGroupResource"
    /\ Refreshed
    /\ \E plan \in UserGroupPlans :
       \E failAt \in {"none", "usergroups.update"} :
        LET id == tfstate.id
            updated == [remote[id] EXCEPT !.name = plan.name,
                                          !.handle = plan.handle,
                                          !.description = plan.description]
        IN  /\ UserGroupPlanDiffers(plan, tfstate)
            /\ ~HandleRequiresReplace(tfstate.handle, plan.handle)
            /\ remote' = IF failAt = "none" THEN [remote EXCEPT ![id] = updated] ELSE remote
            /\ tfstate' = IF failAt = "none" THEN UserGroupState(id, updated) ELSE tfstate
            /\ ops' = Remember(Op("update", failAt = "none", plan,
                                  <<"usergroups.update">>, tfstate'))
    /\ UNCHANGED <<lookupVars, readVars, lookups, provider, config>>

\* UserGroupResource.Delete: the group is disabled.
UserGroupDelete ==
    /\ kind = "UserGroupResource"
    /\ Refreshed
    /\ \E failAt \in {"none", "usergroups.disable"} :
        /\ remote' = IF failAt = "none"
                     THEN [remote EXCEPT ![tfstate.id] = Retired]
                     ELSE remote
        /\ tfstate' = IF failAt = "none" THEN NoState ELSE tfstate
        /\ ops' = Remember(Op("delete", failAt = "none", NoPlan,
                              <<"usergroups.disable">>, tfstate'))
    /\ UNCHANGED <<lookupVars, readVars, lookups, provider, config>>

\* The objects of the workspace that are in use.
Live == {i \in DOMAIN remote :
            IF kind = "ChannelResource" THEN ~remote[i].archived ELSE ~remote[i].disabled}

\* ChannelResource.ImportState, UserGroupResource.ImportState: the id given
\* to `terraform import` becomes the whole state; no remote call is made.
\* The import goes into a state that does not hold the resource.
ImportState ==
    /\ kind \in {"ChannelResource", "UserGroupResource"}
    /\ \E id \in Live :
        /\ tfstate' = IdOnly(id)
        /\ ops' = Remember(Op("import", TRUE, NoPlan, <<>>, tfstate'))
    /\ UNCHANGED <<lookupVars, readVars, lookups, remote, provider, config>>

ResourceNext ==
    \/ ChannelCreate
    \/ ChannelRead
    \/ ChannelUpdate
    \/ ChannelDelete
    \/ UserGroupCreate
    \/ UserGroupRead
    \/ UserGroupUpdate
    \/ UserGroupDelete
    \/ ImportState

ResourceSpec == ResourceInit /\ [][ResourceNext]_vars

----------------------------------------------------------------------------
(* SlackProvider.Configure and the Configure method of every data source   *)
(* and resource.  The framework calls the provider's Configure once and    *)
(* hands resp.DataSourceData (resp.ResourceData) to each data source       *)
(* (resource) as req.ProviderData; before the provider is configured, and  *)
(* after a Configure that ended early, req.ProviderData is nil.            *)

\* Values of a token: "" is the token of an unset SLACK_TOKEN.
Tokens == {"", "x", "y"}

\* types.String: null, unknown, or a known value.
TokenAttributes ==
    {[null |-> TRUE, unknown |-> FALSE, value |-> ""],
     [null |-> FALSE, unknown |-> TRUE, value |-> ""]}
    \cup {[null |-> FALSE, unknown |-> FALSE, value |-> t] : t \in Tokens}

IsNull(v) == v.null

\* ValueString is "" for a null and for an unknown value.
ValueString(v) == IF v.null \/ v.unknown THEN "" ELSE v.value

\* A nil client, nil provider data.
NoClient == [nil |-> TRUE]

\* slack.New(token)
NewClient(token) == [nil |-> FALSE, token |-> token]

DataSources ==
    {"ChannelDataSource", "UserDataSource", "UserGroupDataSource",
     "ChannelMembersDataSource"}

Resources == {"ChannelResource", "UserGroupResource"}

\* resp.Diagnostics.AddError of Configure
UnableToConfigure == <<"Unable to Configure Slack Client">>

\* req.Config.Get left an error in the diagnostics.
ConfigError == <<"config">>

ConfigureInit ==
    /\ kind = "SlackProvider"
    /\ name = ""
    /\ includeDeactivated = FALSE
    /\ pc = "provider"
    /\ cursor = 0
    /\ previousResp = [set |-> FALSE, Cursor |-> 0]
    /\ ctxDone = FALSE
    /\ timerFired = FALSE
    /\ selected = "none"
    /\ rateLimits = 0
    /\ pages = <<>>
    /\ fetched = <<>>
    /\ result = Return(ZeroItem, Nil)
    /\ diags = <<>>
    /\ state = NoState
    /\ roundTrip = NoRead
    /\ remote = <<>>
    /\ tfstate = NoState
    /\ ops = <<>>
    /\ lookups = <<>>
    /\ config = NoConfig
    /\ \E env \in Tokens, token \in TokenAttributes :
        provider = [pc |-> "configure",
                    env |-> env,
                    config |-> [Token |-> token],
                    getOk |-> FALSE,
                    authOk |-> FALSE,
                    client |-> NoClient,
                    diags |-> <<>>,
                    DataSourceData |-> NoClient,
                    ResourceData |-> NoClient,
                    clients |-> [c \in DataSources \cup Resources |-> NoClient]]

\* Mutant of Configure: a SLACK_TOKEN that is set wins over the attribute.
ConfigurePrefersEnvironment ==
    /\ provider.pc = "configure"
    /\ \E getOk \in BOOLEAN, authOk \in BOOLEAN :
        LET cfg == provider.config
            token == IF provider.env = "" /\ ~IsNull(cfg.Token)
                     THEN ValueString(cfg.Token)
                     ELSE provider.env
            client == NewClient(token)
        IN  provider' =
                IF ~getOk
                THEN [provider EXCEPT !.pc = "done", !.diags = <<ConfigError>>]
                ELSE IF ~authOk
                THEN [provider EXCEPT !.pc = "done", !.getOk = TRUE,
                                      !.client = client,
                                      !.diags = <<UnableToConfigure>>]
                ELSE [provider EXCEPT !.pc = "done", !.getOk = TRUE,
                                      !.authOk = TRUE,
                                      !.client = client,
                                      !.DataSourceData = client,
                                      !.ResourceData = client]
    /\ UNCHANGED <<lookupVars, readVars, resVars, lookups, config>>

\* SlackProvider.Configure.  req.Config.Get may leave an error, which ends
\* Configure; client.AuthTest() succeeds or fails as the endpoint decides.
Configure ==
    /\ provider.pc = "configure"
    /\ \E getOk \in BOOLEAN, authOk \in BOOLEAN :
        LET cfg == provider.config
            token == IF ~IsNull(cfg.Token)
                     THEN ValueString(cfg.Token)
                     ELSE provider.env
            client == NewClient(token)
        IN  provider' =
                IF ~getOk
                THEN [provider EXCEPT !.pc = "done", !.diags = <<ConfigError>>]
                ELSE IF ~authOk
                THEN [provider EXCEPT !.pc = "done", !.getOk = TRUE,
                                      !.client = client,
                                      !.diags = <<UnableToConfigure>>]
                ELSE [provider EXCEPT !.pc = "done", !.getOk = TRUE,
                                      !.authOk = TRUE,
                                      !.client = client,
                                      !.DataSourceData = client,
                                      !.ResourceData = client]
    /\ UNCHANGED <<lookupVars, readVars, resVars, lookups, config>>

\* req.ProviderData of a data source or a resource.
ProviderData(c) ==
    IF c \in DataSources THEN provider.DataSourceData ELSE provider.ResourceData

\* The Configure method of a data source or a resource: nil provider data
\* is ignored, a client is kept in the client field.
ComponentConfigure ==
    /\ kind = "SlackProvider"
    /\ \E c \in DataSources \cup Resources :
        provider' = IF ProviderData(c) = NoClient
                    THEN provider
                    ELSE [provider EXCEPT !.clients[c] = ProviderData(c)]
    /\ UNCHANGED <<lookupVars, readVars, resVars, lookups, config>>

ConfigureNext ==
    \/ Configure
    \/ ComponentConfigure

ConfigureSpec == ConfigureInit /\ [][ConfigureNext]_vars

----------------------------------------------------------------------------
(* The start of a data source's Read: the configuration decides which      *)
(* routine Read calls and with which key.  From there Read runs as in      *)
(* Spec.  The ConfigValidators of the data sources (Conflicting) let at    *)
(* most one of the keys be set.                                            *)

\* Values of a configured key.
KeyValues == {"", "a"}

NullString == [null |-> TRUE, unknown |-> FALSE, value |-> ""]

\* types.StringValue(v)
StringValue(v) == [null |-> FALSE, unknown |-> FALSE, value |-> v]

\* A key attribute of the configuration: omitted, or given a value.
KeyAttributes == {NullString} \cup {StringValue(v) : v \in KeyValues}

\* datasourcevalidator.Conflicting: at most one of the attributes is set.
Conflicting(attrs) ==
    \A i, j \in DOMAIN attrs : (~IsNull(attrs[i]) /\ ~IsNull(attrs[j])) => i = j

\* The configurations of the four data sources that pass validation.
DataSourceConfigs ==
    {c \in [source : {"UserDataSource"}, id : KeyAttributes,
            email : KeyAttributes, name : KeyAttributes,
            handle : {NullString}, include_deactivated : BOOLEAN] :
        Conflicting(<<c.id, c.name, c.email>>)}
    \cup
    {c \in [source : {"ChannelDataSource"}, id : KeyAttributes,
            email : {NullString}, name : KeyAttributes,
            handle : {NullString}, include_deactivated : {FALSE}] :
        Conflicting(<<c.id, c.name>>)}
    \cup
    {c \in [source : {"UserGroupDataSource"}, id : KeyAttributes,
            email : {NullString}, name : {NullString},
            handle : KeyAttributes, include_deactivated : {FALSE}] :
        Conflicting(<<c.id, c.handle>>)}
    \cup
    [source : {"ChannelMembersDataSource"}, id : {StringValue(v) : v \in KeyValues},
     email : {NullString}, name : {NullString},
     handle : {NullString}, include_deactivated : {FALSE}]

\* resp.Diagnostics.AddError("Provider Error", ...)
ProviderError == Diag(<<"Provider Error">>, <<"One of ID or Handle needs to be provided.">>)

\* The routine Read runs and its key.
Routine(k, key) == [kind |-> k, key |-> key]

\* The switch of UserDataSource.Read and of UserGroupDataSource.Read, the
\* if of ChannelDataSource.Read, the only call of
\* ChannelMembersDataSource.Read.
SelectRoutine(c) ==
    CASE c.source = "UserDataSource" ->
            IF ~IsNull(c.id) THEN Routine("getUserById", ValueString(c.id))
            ELSE IF ~IsNull(c.email) THEN Routine("getUserByEmail", ValueString(c.email))
            ELSE Routine("getUserByName", ValueString(c.name))
      [] c.source = "ChannelDataSource" ->
            IF ValueString(c.id) # "" THEN Routine("getChannelById", ValueString(c.id))
            ELSE Routine("getChannelByName", ValueString(c.name))
      [] c.source = "UserGroupDataSource" ->
            IF ~IsNull(c.id) THEN Routine("getUserGroupById", ValueString(c.id))
            ELSE IF ~IsNull(c.handle)
            THEN Routine("getUserGroupByHandle", ValueString(c.handle))
            ELSE Routine("noUserGroupKey", "")
      [] c.source = "ChannelMembersDataSource" ->
            Routine("getUsersInConversation", ValueString(c.id))

ReadInit ==
    /\ config \in DataSourceConfigs
    /\ kind = config.source
    /\ name = ""
    /\ includeDeactivated = FALSE
    /\ pc = "read"
    /\ cursor = 0
    /\ previousResp = [set |-> FALSE, Cursor |-> 0]
    /\ ctxDone = FALSE
    /\ timerFired = FALSE
    /\ selected = "none"
    /\ rateLimits = 0
    /\ pages = <<>>
    /\ fetched = <<>>
    /\ result = Return(ZeroItem, Nil)
    /\ diags = <<>>
    /\ state = NoState
    /\ roundTrip = NoRead
    /\ remote = <<>>
    /\ tfstate = NoState
    /\ ops = <<>>
    /\ lookups = <<>>
    /\ provider = Parked

\* Read has read its configuration and goes to the routine the keys
\* select.  UserGroupDataSource.Read lists the groups before its switch;
\* the switch depends on the configuration only.
ReadSelect ==
    /\ pc = "read"
    /\ pc' = "call"
    /\ kind' = SelectRoutine(config).kind
    /\ name' = SelectRoutine(config).key
    /\ includeDeactivated' = (/\ kind' = "getUserByEmail"
                              /\ config.include_deactivated)
    /\ UNCHANGED <<cursor, previousResp, ctxDone, timerFired, selected,
                   rateLimits, pages, fetched, result>>
    /\ UNCHANGED <<readVars, resVars, lookups, provider, config>>

\* UserGroupDataSource.Read with neither id nor handle: the groups are
\* listed; when that failed Read reports the error of the listing, and
\* otherwise the default case of the switch reports the missing key.
GetUserGroupsNoKey ==
    /\ kind = "noUserGroupKey"
    /\ pc = "call"
    /\ pc' = "done"
    /\ \/ /\ fetched' = Append(fetched, Request("usergroups.list", 0, "ok"))
          /\ diags' = Append(diags, ProviderError)
       \/ \E e \in ErrMsgs \cup {RateLimitMsg} :
            /\ fetched' = Append(fetched, Request("usergroups.list", 0, e))
            /\ diags' = Append(diags, Diag(UnableToFind("getUserGroupById"),
                                           Verbatim(e)))
    /\ UNCHANGED <<state, roundTrip, resVars, lookups, provider, config>>
    /\ UNCHANGED <<kind, name, includeDeactivated, cursor, previousResp,
                   ctxDone, timerFired, selected, rateLimits, pages, result>>

ReadNext ==
    \/ ReadSelect
    \/ GetUserGroupsNoKey
    \/ GetConversationsPage
    \/ GetConversationsFailed
    \/ UsersNextComplete
    \/ UsersNextPage
    \/ UsersNextFailed
    \/ Cancel
    \/ TimerFire
    \/ Select
    \/ RunCase
    \/ GetChannelById
    \/ GetUserByEmail
    \/ GetUsersScan
    \/ GetUserGroup
    \/ GetUserGroupsFailed
    \/ GetUserInfo
    \/ GetUsersInConversation
    \/ DataSourceRead

\* One Read of a data source, from its configuration on.
ReadSpec == ReadInit /\ [][ReadNext]_vars

----------------------------------------------------------------------------
(* Vocabulary of the properties                                            *)

IsOk(r) == r.outcome = "ok"

IsRateLimited(r) == r.outcome = RateLimitMsg

IsTransportError(r) == r.outcome \in ErrMsgs

\* The requests that returned a page, in the order issued.
OkRequests == SelectSeq(fetched, IsOk)

NoFetchFailed == \A i \in DOMAIN fetched : IsOk(fetched[i])

\* The p-th page seen holds an item with the requested key.
Matches(p) == \E i \in 1..Len(pages[p].items) : pages[p].items[i] = name

NoMatchSeen == \A p \in 1..Len(pages) : ~Matches(p)

IsNotFound(e) == e = ChannelNotFound \/ e = UserNotFound(name)

\* The error's message contains the message of ctx.Err().
CarriesCancel(e) == \E i \in 1..Len(e) : e[i] = CtxErrMsg

\* The pages seen are the cursor chain followed from the empty cursor:
\* the first page request carries the empty cursor, each later one the
\* cursor the page before it returned.
ChainOrder ==
    /\ Len(OkRequests) = Len(pages)
    /\ \A j \in 1..Len(OkRequests) :
        OkRequests[j].cursor = IF j = 1 THEN 0 ELSE pages[j - 1].next

----------------------------------------------------------------------------
\* C1: in a name lookup with no failed fetch, when the first item with the
\* requested name is on page k, the lookup returns that item after exactly
\* k page fetches, for pages 1..k in cursor order, and fetches nothing
\* after page k.
C1_FirstMatchAfterKFetches ==
    (kind \in NameLookups /\ pc = "done" /\ NoFetchFailed) =>
        \A k \in 1..Len(pages) :
            (Matches(k) /\ \A j \in 1..(k - 1) : ~Matches(j)) =>
                /\ result.err = Nil
                /\ result.item.key = name
                /\ result.item.pos[1] = k
                /\ result.item.pos[2] \in 1..Len(pages[k].items)
                /\ pages[k].items[result.item.pos[2]] = name
                /\ \A i \in 1..(result.item.pos[2] - 1) : pages[k].items[i] # name
                /\ Len(fetched) = k
                /\ ChainOrder
                /\ \A j \in 1..k : PageIndex(fetched[j].cursor) = j

\* Three pages exist (page 2 has a continuation cursor), the target is on
\* page 2, and the lookup returned it after 2 fetches.
C1_Witness ==
    /\ kind \in NameLookups
    /\ pc = "done"
    /\ NoFetchFailed
    /\ Len(pages) = 2
    /\ ~Matches(1)
    /\ Matches(2)
    /\ pages[2].next # 0
    /\ Len(fetched) = 2
    /\ result.item.pos[1] = 2

\* C2: a name lookup in which no item matches fails with not-found, and
\* not-found is returned only after the last page (empty continuation
\* cursor) was fetched and scanned.
C2_NotFoundOnlyAfterLastPage ==
    (kind \in NameLookups /\ pc = "done") =>
        /\ (NoFetchFailed /\ NoMatchSeen) => IsNotFound(result.err)
        /\ IsNotFound(result.err) =>
            /\ NoMatchSeen
            /\ pages # <<>>
            /\ pages[Len(pages)].next = 0
            /\ IsOk(fetched[Len(fetched)])

C4_UserCancelIsNotNotFound ==
    (kind = "getUserByName" /\ pc = "done" /\ selected = "done") =>
        /\ CarriesCancel(result.err)
        /\ ~IsNotFound(result.err)

\* C5: getChannelByName, cancelled while waiting out a rate-limit backoff
\* (the context is done and RetryAfter has not elapsed), takes the
\* ctx.Done() case, issues no further fetch (the rate-limited request
\* stays the last one) and returns the error carrying ctx.Err(), not
\* channel_not_found.
C5_ChannelCancelReturnsCancelled ==
    kind = "getChannelByName" =>
        /\ (pc \in {"parked", "case"} /\ ctxDone /\ ~timerFired)
                => (pc = "case" /\ selected = "done")
        /\ selected = "done" =>
            /\ pc \in {"case", "done"}
            /\ fetched # <<>>
            /\ IsRateLimited(fetched[Len(fetched)])
        /\ (selected = "done" /\ pc = "done") =>
            /\ result = Return(ZeroItem, ErrorListingChannels(CtxErrMsg))
            /\ CarriesCancel(result.err)
            /\ ~IsNotFound(result.err)

\* getChannelByName was cancelled before RetryAfter elapsed and returned.
C5_Witness ==
    /\ kind = "getChannelByName"
    /\ pc = "done"
    /\ selected = "done"
    /\ ctxDone
    /\ ~timerFired
    /\ Len(fetched) = 1
    /\ CarriesCancel(result.err)

\* C6: when a fetch of getChannelByName, getUserByName, getUserByEmail or
\* getChannelById fails with a non-rate-limit error and the lookup ends on
\* it, the lookup returns that same error value, neither replaced by
\* not-found nor rewritten.
C6_TransportErrorVerbatim ==
    (/\ kind \in {"getChannelByName", "getUserByName", "getUserByEmail", "getChannelById"}
     /\ pc = "done"
     /\ fetched # <<>>
     /\ IsTransportError(fetched[Len(fetched)]))
        => result.err = Verbatim(fetched[Len(fetched)].outcome)

\* C7: after a fetch of a name lookup returns a non-rate-limit error the
\* lookup has ended with an error result, and that fetch is the last one
\* it issued.
C7_TransportErrorAborts ==
    kind \in NameLookups =>
        \A i \in DOMAIN fetched :
            IsTransportError(fetched[i]) =>
                /\ i = Len(fetched)
                /\ pc = "done"
                /\ result.err # Nil
                /\ result.item = ZeroItem

\* A name lookup scanned a page, then had a fetch fail, and ended.
C7_Witness ==
    /\ kind \in NameLookups
    /\ pc = "done"
    /\ Len(fetched) >= 2
    /\ IsOk(fetched[1])
    /\ IsTransportError(fetched[Len(fetched)])
    /\ result.err # Nil

\* C8: no lookup returns a rate-limit error to its caller.
C8_RateLimitNeverReturned ==
    pc = "done" =>
        \A i \in 1..Len(result.err) : result.err[i] # RateLimitMsg

\* One step of a name lookup in which cancellation has precedence.
CancellationWins ==
    kind \in NameLookups =>
        /\ (pc \in {"select", "parked"} /\ pc' = "case" /\ ctxDone')
                => selected' = "done"
        /\ (pc = "case" /\ selected = "done")
                => (pc' = "done" /\ fetched' = fetched /\ CarriesCancel(result'.err))

\* C9: when the wait of a name lookup's select ends with the context
\* cancelled (also when the timer is ready too), the ctx.Done() case is
\* the one taken, so the fetch is not issued again, and the lookup
\* returns the cancellation error.
C9_CancellationTakesPrecedence == [][CancellationWins]_vars

ScanningLookups == {"getChannelByName", "getUserByName", "getUserByEmail",
                    "getUserGroupById", "getUserGroupByHandle"}

\* The item at pos comes before every other item with the requested key
\* in the pages seen: earliest page, lowest position in it.
IsFirstInEncounterOrder(pos) ==
    /\ pos[1] \in 1..Len(pages)
    /\ pos[2] \in 1..Len(pages[pos[1]].items)
    /\ pages[pos[1]].items[pos[2]] = name
    /\ \A q \in 1..pos[1] : \A j \in 1..Len(pages[q].items) :
        (q < pos[1] \/ j < pos[2]) => pages[q].items[j] # name

\* C10: a scanning lookup that finds the key returns the match that comes
\* first in encounter order, and the pages were consumed in the order the
\* cursors chain them.
C10_FirstInEncounterOrder ==
    (kind \in ScanningLookups /\ pc = "done") =>
        /\ (pages # <<>> /\ ~NoMatchSeen) =>
            /\ result.err = Nil
            /\ result.item.key = name
            /\ IsFirstInEncounterOrder(result.item.pos)
        /\ kind \in NameLookups => ChainOrder

\* A lookup returned the first of two matches of a page.
C10_Witness ==
    /\ kind \in ScanningLookups
    /\ pc = "done"
    /\ result.err = Nil
    /\ result.item.pos[1] \in 1..Len(pages)
    /\ result.item.pos[2] = 1
    /\ pages[result.item.pos[1]].items = <<name, name>>

----------------------------------------------------------------------------
\* C11: getUserByEmail first asks the by-email endpoint.  On success that
\* user is returned and the user list is never fetched.  On users_not_found
\* with includeDeactivated set the whole list is fetched exactly once and
\* the first user with the email is returned, else the not-found error.
\* On users_not_found without the flag, or on any other error whatever the
\* flag, the error is returned as it came and the list is never fetched.
IsListing(r) == r.call = "users.list (all)"

C11_EmailFallbackOnlyWhenDeactivated ==
    (kind = "getUserByEmail" /\ pc = "done") =>
        /\ Len(fetched) >= 1
        /\ fetched[1].call = "users.lookupByEmail"
        /\ IF IsOk(fetched[1])
           THEN /\ Len(fetched) = 1
                /\ result = Return(DirectItem(name), Nil)
           ELSE IF fetched[1].outcome = "users_not_found" /\ includeDeactivated
           THEN /\ Len(fetched) = 2
                /\ IsListing(fetched[2])
                /\ IsOk(fetched[2]) =>
                     /\ Len(pages) = 1
                     /\ IF Matches(1)
                        THEN /\ result.err = Nil
                             /\ result.item.key = name
                             /\ result.item.pos[1] = 1
                             /\ \A j \in 1..Len(pages[1].items) :
                                  pages[1].items[j] = name
                                      => result.item.pos[2] <= j
                        ELSE result = Return(ZeroItem, UserNotFound(name))
           ELSE /\ Len(fetched) = 1
                /\ result = Return(ZeroItem, Verbatim(fetched[1].outcome))

\* The fallback ran and found the user at the second place of the list,
\* behind a user with another email.
C11_Witness ==
    /\ kind = "getUserByEmail"
    /\ pc = "done"
    /\ includeDeactivated
    /\ Len(fetched) = 2
    /\ IsListing(fetched[2])
    /\ result.err = Nil
    /\ result.item.pos = <<1, 2>>

----------------------------------------------------------------------------
\* C12: every name lookup runs to completion with exactly one outcome.
\* Over a finite collection and with finitely many rate-limit signals,
\* getChannelByName and getUserByName eventually return, and what they
\* return is either an item with no error or the zero item with an error,
\* never both and never neither.
ItemXorError ==
    (result.item # ZeroItem) # (result.err # Nil)

C12_NameLookupTerminates ==
    /\ (kind \in NameLookups) ~> (pc = "done" /\ ItemXorError)
    /\ []((kind \in NameLookups /\ pc = "done") => ItemXorError)

\* A name lookup that returned after a rate-limit wait and a second page.
C12_Witness ==
    /\ kind \in NameLookups
    /\ pc = "done"
    /\ rateLimits = MaxRateLimits
    /\ Len(pages) >= 2
    /\ ItemXorError

----------------------------------------------------------------------------
\* C13: the channel lookup by id and the user lookup by id each issue
\* exactly one single-item fetch and no page fetch, whether they succeed
\* or fail; a failed fetch is returned as the error with a zero item.
ByIdLookups == {"getChannelById", "getUserById"}

SingleItemCall(k) == IF k = "getChannelById" THEN "conversations.info" ELSE "users.info"

C13_ByIdIsOneFetch ==
    kind \in ByIdLookups =>
        /\ pages = <<>>
        /\ \A i \in DOMAIN fetched : fetched[i].call = SingleItemCall(kind)
        /\ pc # "done" => fetched = <<>>
        /\ pc = "done" =>
            /\ Len(fetched) = 1
            /\ IF IsOk(fetched[1])
               THEN result = Return(DirectItem(name), Nil)
               ELSE result = Return(ZeroItem, Verbatim(fetched[1].outcome))

\* A by-id lookup failed on its only fetch and returned the error.
C13_Witness ==
    /\ kind \in ByIdLookups
    /\ pc = "done"
    /\ Len(fetched) = 1
    /\ ~IsOk(fetched[1])
    /\ result.item = ZeroItem
    /\ result.err # Nil

----------------------------------------------------------------------------
\* One step of a Read that leaves the remote workspace alone: every
\* request issued so far is a read, the managed objects are untouched and
\* the pages already received are still what they were.
ReadOnlyStep ==
    /\ \A i \in DOMAIN fetched' : fetched'[i].call \in ReadCalls
    /\ remote' = remote
    /\ Len(pages') >= Len(pages)
    /\ \A i \in DOMAIN pages : pages'[i] = pages[i]

\* C14: lookups are read-only.  Across a data source's Read and every
\* lookup helper (by id, name, handle, email, members listing), failing,
\* rate-limited and cancelled runs included, no mutating remote call is
\* issued and the remote collection is left unchanged.
C14_LookupsAreReadOnly == [][ReadOnlyStep]_vars

\* A Read that was rate limited, cancelled and ended with an error
\* diagnostic, having issued read requests only.
C14_Witness ==
    /\ pc = "done"
    /\ ReadDone
    /\ ctxDone
    /\ rateLimits > 0
    /\ diags # <<>>
    /\ Len(fetched) >= 2
    /\ \A i \in DOMAIN fetched : fetched[i].call \in ReadCalls

----------------------------------------------------------------------------
\* The error's message contains the requested key.
CarriesKey(e) == \E i \in 1..Len(e) : e[i] = name

\* C15: whenever a scanning lookup fails because no item matched after the
\* last page, the not-found error it returns carries the originally
\* requested key.
C15_NotFoundCarriesKey ==
    (/\ kind \in ScanningLookups
     /\ pc = "done"
     /\ NoFetchFailed
     /\ pages # <<>>
     /\ pages[Len(pages)].next = 0
     /\ NoMatchSeen)
        => (result.err # Nil /\ CarriesKey(result.err))

----------------------------------------------------------------------------
\* What getChannelByName(n) returns when it runs alone against the
\* workspace's pages and no request fails: the first match of the first
\* page that has one, else channel_not_found.
AloneResult(n) ==
    IF \E k \in 1..Len(pages) : FirstMatch(pages[k].items, n) # 0
    THEN LET k == CHOOSE k \in 1..Len(pages) :
                    /\ FirstMatch(pages[k].items, n) # 0
                    /\ \A j \in 1..(k - 1) : FirstMatch(pages[j].items, n) = 0
         IN  Return(Item(n, k, FirstMatch(pages[k].items, n)), Nil)
    ELSE Return(ZeroItem, ChannelNotFound)

\* The call's last request failed with an error that is not a rate limit.
EndedOnError(l) == l.last \in ErrMsgs

\* C16: within one lookup at most one remote request is in flight, and
\* lookups share no mutable state: each of two concurrent lookups returns
\* what it would return running alone against the same responses, under
\* every interleaving.
C16_ConcurrentLookupsIsolated ==
    \A p \in DOMAIN lookups :
        /\ lookups[p].inFlight <= 1
        /\ lookups[p].pc = "done" =>
            IF EndedOnError(lookups[p])
            THEN lookups[p].result =
                    Return(ZeroItem, ErrorListingChannels(lookups[p].last))
            ELSE lookups[p].result = AloneResult(lookups[p].name)

\* Both calls have returned; the second found its channel on page 1 while
\* the first, rate limited on the way, went on to page 2 and found none.
C16_Witness ==
    /\ lookups # <<>>
    /\ lookups[1].pc = "done"
    /\ lookups[2].pc = "done"
    /\ lookups[1].name # lookups[2].name
    /\ lookups[2].result.err = Nil
    /\ lookups[2].result.item.pos[1] = 1
    /\ lookups[1].cursor >= 2
    /\ lookups[1].rateLimits > 0
    /\ lookups[1].result = Return(ZeroItem, ChannelNotFound)
    /\ Len(pages) >= 2

----------------------------------------------------------------------------
\* C17: the lookups by name and by id of a data source agree.  Reading a
\* channel, a user or a user group by its name (handle) and then reading
\* by the id that Read saved gives the same id and the name (handle) that
\* was asked for first.
C17_NameIdRoundTrip ==
    (roundTrip.done /\ roundTrip.diags = <<>>) =>
        /\ roundTrip.state.set
        /\ roundTrip.state.item.pos = state.item.pos
        /\ roundTrip.state.item.key = name
        /\ roundTrip.state = state

\* The name is unique in the workspace, the item sits behind another one
\* on the second page, and the Read by its id succeeded.
C17_Witness ==
    /\ kind \in NameKeyedLookups
    /\ roundTrip.done
    /\ roundTrip.diags = <<>>
    /\ roundTrip.id[2] = 2
    /\ Cardinality({pos \in (1..Len(pages)) \X (1..MaxPageLen) :
            /\ pos[2] <= Len(pages[pos[1]].items)
            /\ pages[pos[1]].items[pos[2]] = name}) = 1

----------------------------------------------------------------------------
\* The Read found no item for its key: its routine returned an error, or
\* the request Read issues itself (the list of user groups, the members
\* of the channel) failed.
FoundNothing ==
    \/ result.err # Nil
    \/ /\ kind \in UserGroupLookups \cup {"getUsersInConversation"}
       /\ fetched # <<>>
       /\ ~IsOk(fetched[Len(fetched)])

\* The first words of the error diagnostic each data source must give.
ExpectedSummary ==
    IF kind \in {"getChannelByName", "getChannelById", "getUsersInConversation"}
    THEN "Unable to find channel"
    ELSE IF kind \in {"getUserByName", "getUserByEmail", "getUserById"}
    THEN "Unable to find user"
    ELSE "Unable to find User Group"

\* C18: a data source's Read whose key matches no item ends with an error
\* diagnostic, 'Unable to find channel' for slack_channel and
\* slack_channel_members, 'Unable to find user' for slack_user, 'Unable to
\* find User Group' for slack_usergroup, and never ends successfully with
\* an empty item.
C18_NoMatchIsErrorDiagnostic ==
    (pc = "done" /\ ReadDone) =>
        /\ FoundNothing =>
            /\ diags # <<>>
            /\ \A i \in DOMAIN diags : diags[i].summary[1] = ExpectedSummary
        /\ diags = <<>> =>
            /\ state.set
            /\ state.item # ZeroItem
            /\ state.item.key = name

\* ChannelDataSource.Read by a name no channel has: the routine scanned
\* the last page, Read saved a state made of the zero channel and ended
\* with the error diagnostic.
C18_Witness ==
    /\ kind = "getChannelByName"
    /\ pc = "done"
    /\ ReadDone
    /\ NoFetchFailed
    /\ NoMatchSeen
    /\ Len(pages) >= 2
    /\ state = StateOf(ZeroItem)
    /\ diags = <<Diag(<<"Unable to find channel", ", got error: ">>, ChannelNotFound)>>

----------------------------------------------------------------------------
\* The last operation of the resource.
LastOp == ops[Len(ops)]

\* The last operation was a Create or an Update that ended without error.
Applied ==
    /\ ops # <<>>
    /\ LastOp.op \in {"create", "update"}
    /\ LastOp.ok

\* C19: channel resource lifecycle.  After a successful Create or Update
\* the saved state's name, topic and description equal the configured
\* values, an omitted topic or description being stored as ""; so after
\* create, set topic and description, remove them, the workspace's and the
\* state's topic and description are "" again.
C19_ChannelStateEqualsConfig ==
    (kind = "ChannelResource" /\ Applied) =>
        /\ tfstate.set
        /\ tfstate.name = LastOp.plan.name
        /\ tfstate.topic = LastOp.plan.topic
        /\ tfstate.description = LastOp.plan.description
        /\ remote[tfstate.id].name = LastOp.plan.name
        /\ remote[tfstate.id].topic = LastOp.plan.topic
        /\ remote[tfstate.id].purpose = LastOp.plan.description

\* Topic and description were set by the operation before, and an Update
\* whose plan omits them has emptied both in the workspace and the state.
C19_Witness ==
    /\ kind = "ChannelResource"
    /\ Len(ops) = 2
    /\ ops[1].ok
    /\ ops[1].saved.set
    /\ ops[1].saved.topic = "t"
    /\ ops[1].saved.description = "d"
    /\ LastOp.op = "update"
    /\ LastOp.ok
    /\ LastOp.plan.topic = ""
    /\ LastOp.plan.description = ""
    /\ tfstate.topic = ""
    /\ tfstate.description = ""
    /\ remote[tfstate.id].topic = ""
    /\ remote[tfstate.id].purpose = ""

----------------------------------------------------------------------------
\* The operation e was a Create or an Update that ended without error.
IsApplied(e) == e.op \in {"create", "update"} /\ e.ok

\* One step of a resource that, when it is a successful Read, reproduces
\* the state Create or Update saved: a Read right after them leaves the
\* state as it is, and a Read right after the import of the same id
\* yields that state again.
ReadReproducesSaved ==
    (/\ ops # <<>>
     /\ ops' # <<>>
     /\ ops'[Len(ops')].op = "read"
     /\ ops'[Len(ops')].ok) =>
        /\ IsApplied(LastOp) => tfstate' = tfstate
        /\ (/\ LastOp.op = "import"
            /\ Len(ops) = 2
            /\ IsApplied(ops[1])
            /\ ops[1].saved.id = tfstate.id) => tfstate' = ops[1].saved

\* C20: Read is a fixpoint of the state written by Create and Update, and
\* import reproduces it, for the channel and the user group resource:
\* importing by id (a state that holds the id only) and reading yields
\* exactly the state Create or Update saved, and a Read on that state
\* leaves it unchanged.
C20_ReadIsFixpointAndImportReproduces == [][ReadReproducesSaved]_vars

\* A user group with a handle and a description was imported by its id
\* and read.
C20_Witness ==
    /\ kind = "UserGroupResource"
    /\ Len(ops) = 2
    /\ ops[1].op = "import"
    /\ LastOp.op = "read"
    /\ LastOp.ok
    /\ tfstate = UserGroupState(tfstate.id, remote[tfstate.id])
    /\ tfstate.handle = "h"
    /\ tfstate.description = "d"

----------------------------------------------------------------------------
\* C21: user group resource lifecycle.  After a successful Create or Update
\* the saved state's name, handle and description equal the configured
\* values, an omitted handle or description being stored as ""; removing a
\* description that was set resets the state's description to "" while the
\* handle keeps its value.
C21_UserGroupStateEqualsConfig ==
    (kind = "UserGroupResource" /\ Applied) =>
        /\ tfstate.set
        /\ tfstate.name = LastOp.plan.name
        /\ tfstate.handle = LastOp.plan.handle
        /\ tfstate.description = LastOp.plan.description
        /\ remote[tfstate.id].name = LastOp.plan.name
        /\ remote[tfstate.id].handle = LastOp.plan.handle
        /\ remote[tfstate.id].description = LastOp.plan.description

\* Handle and description were set by the operation before, and an Update
\* whose plan omits the description has emptied it and kept the handle.
C21_Witness ==
    /\ kind = "UserGroupResource"
    /\ Len(ops) = 2
    /\ ops[1].ok
    /\ ops[1].saved.set
    /\ ops[1].saved.handle = "h"
    /\ ops[1].saved.description = "d"
    /\ LastOp.op = "update"
    /\ LastOp.ok
    /\ LastOp.plan.handle = "h"
    /\ LastOp.plan.description = ""
    /\ tfstate.handle = "h"
    /\ tfstate.description = ""
    /\ remote[tfstate.id].description = ""

----------------------------------------------------------------------------
\* Terraform can apply the plan to the user group of the state in place,
\* by a call of Update.
InPlaceUpdate(plan) ==
    ENABLED (UserGroupUpdate /\ ops'[Len(ops')].plan = plan)

\* C22: the handle of a user group cannot be removed once it is set.  The
\* plan modifier of the handle requires replacement exactly when the prior
\* state's handle is not empty and the planned handle is empty: a plan that
\* differs from the state is applied in place by Update in every other
\* case (empty to empty, empty to set, set to another set value) and in
\* that case never.
C22_HandleReplaceOnlyOnRemoval ==
    (kind = "UserGroupResource" /\ Refreshed) =>
        \A plan \in UserGroupPlans :
            UserGroupPlanDiffers(plan, tfstate) =>
                /\ HandleRequiresReplace(tfstate.handle, plan.handle)
                      <=> (tfstate.handle # "" /\ plan.handle = "")
                /\ InPlaceUpdate(plan)
                      <=> ~(tfstate.handle # "" /\ plan.handle = "")

\* A handle that was set has been changed to another one by an Update.
C22_Witness ==
    /\ kind = "UserGroupResource"
    /\ Len(ops) = 2
    /\ ops[1].ok
    /\ ops[1].saved.set
    /\ ~IsIdOnly(ops[1].saved)
    /\ ops[1].saved.handle = "h"
    /\ LastOp.op = "update"
    /\ LastOp.ok
    /\ LastOp.plan.handle = "g"
    /\ tfstate.handle = "g"

----------------------------------------------------------------------------
\* Some data source or resource holds a client, or the response of
\* Configure carries one.
HandedOut ==
    \/ provider.DataSourceData # NoClient
    \/ provider.ResourceData # NoClient
    \/ \E c \in DataSources \cup Resources : provider.clients[c] # NoClient

\* C23: provider configuration.  The token of the Slack client is the
\* configured token attribute whenever that is not null, otherwise the
\* value of SLACK_TOKEN; the client is handed to data sources and
\* resources only if the authentication test succeeded, and when the test
\* failed an error diagnostic is reported and no client is handed out.
C23_TokenChoiceAndAuthGate ==
    kind = "SlackProvider" =>
        /\ provider.client # NoClient =>
              provider.client.token =
                  IF provider.config.Token.null THEN provider.env
                  ELSE IF provider.config.Token.unknown THEN ""
                  ELSE provider.config.Token.value
        /\ HandedOut =>
              /\ provider.authOk
              /\ provider.DataSourceData = provider.client
              /\ provider.ResourceData = provider.client
              /\ \A c \in DataSources \cup Resources :
                    provider.clients[c] \in {NoClient, provider.client}
        /\ (provider.pc = "done" /\ provider.getOk /\ ~provider.authOk) =>
              /\ provider.diags = <<UnableToConfigure>>
              /\ ~HandedOut

\* Both a token attribute and SLACK_TOKEN were set, to different values,
\* the test succeeded and a data source and a resource hold the client
\* made with the attribute's token.
C23_Witness ==
    /\ kind = "SlackProvider"
    /\ provider.pc = "done"
    /\ provider.env = "y"
    /\ provider.config.Token = [null |-> FALSE, unknown |-> FALSE, value |-> "x"]
    /\ provider.authOk
    /\ provider.clients["ChannelDataSource"] = NewClient("x")
    /\ provider.clients["UserGroupResource"] = NewClient("x")

----------------------------------------------------------------------------
\* C24: a data source's Read writes an item into the state only after a
\* successful lookup.  In every run of ChannelDataSource.Read,
\* UserDataSource.Read, UserGroupDataSource.Read and
\* ChannelMembersDataSource.Read in which the lookup returned an error,
\* the error diagnostic is reported and the response state is left unset.
C24_StateOnlyAfterSuccess ==
    /\ (pc = "done" /\ ReadDone /\ FoundNothing) =>
          /\ diags # <<>>
          /\ ~state.set
    /\ (roundTrip.done /\ roundTrip.diags # <<>>) => ~roundTrip.state.set

----------------------------------------------------------------------------
\* C25: after a successful ChannelResource.Update, for every combination
\* of attributes that differ between the plan and the prior state, the
\* remote channel's and the saved state's name, is_private, topic and
\* description all equal the planned values.
C25_UpdateAppliesEveryAttribute ==
    (kind = "ChannelResource" /\ ops # <<>> /\ LastOp.op = "update" /\ LastOp.ok) =>
        /\ tfstate.name = LastOp.plan.name
        /\ tfstate.is_private = LastOp.plan.is_private
        /\ tfstate.topic = LastOp.plan.topic
        /\ tfstate.description = LastOp.plan.description
        /\ remote[tfstate.id].name = LastOp.plan.name
        /\ remote[tfstate.id].is_private = LastOp.plan.is_private
        /\ remote[tfstate.id].topic = LastOp.plan.topic
        /\ remote[tfstate.id].purpose = LastOp.plan.description

----------------------------------------------------------------------------
\* C26: ChannelResource.Create is all-or-nothing with respect to tracking.
\* If it returns an error diagnostic (from create-conversation,
\* set-purpose, set-topic or the final read), no channel created by that
\* call is left in the workspace without being recorded in the state;
\* conversely the state is written only when every step succeeded.
C26_CreateAllOrNothing ==
    (kind = "ChannelResource" /\ ops # <<>> /\ LastOp.op = "create") =>
        /\ ~LastOp.ok => \A i \in Live : tfstate.set /\ tfstate.id = i
        /\ tfstate.set =>
              /\ LastOp.ok
              /\ LastOp.calls = ChannelCreateCalls(LastOp.plan)

----------------------------------------------------------------------------
\* The place of a remote call in the order name, description, topic, read.
Rank(call) ==
    CASE call = "conversations.rename" -> 1
      [] call = "conversations.setPurpose" -> 2
      [] call = "conversations.setTopic" -> 3
      [] call = "conversations.info" -> 4

\* The call is among the calls.
IssuedIn(calls, call) == \E i \in DOMAIN calls : calls[i] = call

\* The write for an attribute is called for: plan and prior state differ.
Differs(call, plan, prior) ==
    CASE call = "conversations.rename" -> plan.name # prior.name
      [] call = "conversations.setPurpose" -> plan.description # prior.description
      [] call = "conversations.setTopic" -> plan.topic # prior.topic

Writes == {"conversations.rename", "conversations.setPurpose", "conversations.setTopic"}

\* C27: ChannelResource.Update issues a remote write for an attribute if
\* and only if its planned value differs from the prior state (rename for
\* name, set-purpose for description, set-topic for topic), in the fixed
\* order name, description, topic, followed by exactly one read by id; the
\* first failing call stops the sequence, so later writes are not issued
\* and the state is not written, while earlier writes remain applied in
\* the workspace.
C27_UpdateWritesInOrderAndStops ==
    (kind = "ChannelResource" /\ ops # <<>> /\ LastOp.op = "update") =>
        LET prior == ops[1].saved
            plan == LastOp.plan
            calls == LastOp.calls
            last == calls[Len(calls)]
            ch == remote[tfstate.id]
            applied(w) == IssuedIn(calls, w) /\ (LastOp.ok \/ w # last)
        IN  /\ calls # <<>>
            /\ \A i, j \in DOMAIN calls : i < j => Rank(calls[i]) < Rank(calls[j])
            /\ \A w \in Writes :
                  /\ IssuedIn(calls, w) => Differs(w, plan, prior)
                  /\ (Differs(w, plan, prior) /\ Rank(w) <= Rank(last))
                        => IssuedIn(calls, w)
            /\ LastOp.ok => last = "conversations.info"
            /\ LastOp.ok => tfstate = ChannelState(tfstate.id, ch)
            /\ ~LastOp.ok => tfstate = prior
            /\ ch.name = IF applied("conversations.rename")
                          THEN plan.name ELSE prior.name
            /\ ch.purpose = IF applied("conversations.setPurpose")
                             THEN plan.description ELSE prior.description
            /\ ch.topic = IF applied("conversations.setTopic")
                           THEN plan.topic ELSE prior.topic

\* An Update whose plan changed name, description and topic failed at
\* set-topic: the rename and the description are applied in the
\* workspace, the topic is not, the read was not issued and the state is
\* the prior one.
C27_Witness ==
    /\ kind = "ChannelResource"
    /\ Len(ops) = 2
    /\ LastOp.op = "update"
    /\ ~LastOp.ok
    /\ LastOp.calls = <<"conversations.rename", "conversations.setPurpose",
                        "conversations.setTopic">>
    /\ tfstate = ops[1].saved
    /\ remote[tfstate.id].name = LastOp.plan.name
    /\ remote[tfstate.id].name # tfstate.name
    /\ remote[tfstate.id].purpose = LastOp.plan.description
    /\ remote[tfstate.id].purpose # tfstate.description
    /\ remote[tfstate.id].topic = tfstate.topic
    /\ remote[tfstate.id].topic # LastOp.plan.topic

----------------------------------------------------------------------------
\* C28: ChannelResource.Delete is idempotent.  It issues exactly one
\* archive call; when the archive succeeds or fails with
\* channel_not_found, Delete ends without any error diagnostic, so
\* deleting a channel that is already removed succeeds; any other archive
\* error ends Delete with an error diagnostic.
C28_DeleteIsIdempotent ==
    (kind = "ChannelResource" /\ ops # <<>> /\ LastOp.op = "delete") =>
        /\ LastOp.calls = <<"conversations.archive">>
        /\ LastOp.answer \in {"ok", "channel_not_found"} =>
              /\ LastOp.ok
              /\ ~tfstate.set
        /\ LastOp.answer \notin {"ok", "channel_not_found"} =>
              /\ ~LastOp.ok
              /\ tfstate = ops[1].saved

\* The channel had left the workspace when Delete ran: the archive call
\* answered channel_not_found and Delete ended without a diagnostic.
C28_Witness ==
    /\ kind = "ChannelResource"
    /\ Len(ops) = 2
    /\ LastOp.op = "delete"
    /\ LastOp.answer = "channel_not_found"
    /\ LastOp.ok
    /\ ~tfstate.set
    /\ ops[1].saved.set

----------------------------------------------------------------------------
\* The member ids of all pages returned.
MembersOfPages ==
    UNION {{pages[i].items[j] : j \in DOMAIN pages[i].items} : i \in DOMAIN pages}

\* C29: ChannelMembersDataSource.Read fetches member pages in cursor order
\* until a page returns an empty cursor, fetching each page exactly once,
\* and the members set it saves is exactly the union of the member ids of
\* all pages; a fetch error at any page is reported as an error diagnostic
\* and stops further fetching.
C29_MembersAreUnionOfPages ==
    kind = "getUsersInConversation" =>
        LET n == Len(fetched)
        IN  /\ \A i \in 1..n :
                  /\ fetched[i].call = "conversations.members"
                  /\ i < n => IsOk(fetched[i]) /\ pages[i].next # 0
                  /\ fetched[i].cursor = IF i = 1 THEN 0 ELSE pages[i - 1].next
            /\ Len(pages) = Cardinality({i \in 1..n : IsOk(fetched[i])})
            /\ pc # "done" => ~state.set /\ diags = <<>>
            /\ pc = "done" =>
                  /\ n >= 1
                  /\ state.set
                  /\ {state.members[i] : i \in DOMAIN state.members} = MembersOfPages
                  /\ IsOk(fetched[n]) => pages[n].next = 0 /\ diags = <<>>
                  /\ ~IsOk(fetched[n]) =>
                        /\ Len(diags) = 1
                        /\ diags[1].summary[1] = "Unable to find channel"
                        /\ diags[1].detail = <<fetched[n].outcome>>

\* Three pages were fetched, each once, and the members of all of them
\* were saved; the first and the last page hold different members.
C29_Witness ==
    /\ kind = "getUsersInConversation"
    /\ pc = "done"
    /\ diags = <<>>
    /\ Len(fetched) = 3
    /\ Len(pages) = 3
    /\ pages[1].items = <<"a">>
    /\ pages[3].items = <<"b">>
    /\ state.set
    /\ {state.members[i] : i \in DOMAIN state.members} = {"a", "b"}

----------------------------------------------------------------------------
\* The remote calls of a routine.
CallsOf(k) ==
    CASE k = "getUserById" -> {"users.info"}
      [] k = "getUserByEmail" -> {"users.lookupByEmail", "users.list (all)"}
      [] k = "getUserByName" -> {"users.list"}
      [] k = "getChannelById" -> {"conversations.info"}
      [] k = "getChannelByName" -> {"conversations.list"}
      [] k \in {"getUserGroupById", "getUserGroupByHandle", "noUserGroupKey"}
            -> {"usergroups.list"}
      [] k = "getUsersInConversation" -> {"conversations.members"}

\* C30: each data source's Read invokes exactly one lookup routine,
\* selected only by which key is set.  slack_user uses the id if it is
\* set, else the email if it is set, else the name; slack_channel uses the
\* id if it is not empty, else the name; slack_usergroup uses the id if it
\* is set, else the handle if it is set, and with neither set ends with a
\* `Provider Error` diagnostic without selecting any group.
C30_OneRoutineChosenByKey ==
    (config # NoConfig /\ pc # "read") =>
        /\ \A i \in DOMAIN fetched : fetched[i].call \in CallsOf(kind)
        /\ config.source = "UserDataSource" =>
              IF ~config.id.null
              THEN kind = "getUserById" /\ name = config.id.value
              ELSE IF ~config.email.null
              THEN kind = "getUserByEmail" /\ name = config.email.value
              ELSE kind = "getUserByName" /\ name = config.name.value
        /\ config.source = "ChannelDataSource" =>
              IF ~config.id.null /\ config.id.value # ""
              THEN kind = "getChannelById" /\ name = config.id.value
              ELSE kind = "getChannelByName" /\ name = config.name.value
        /\ config.source = "UserGroupDataSource" =>
              IF ~config.id.null
              THEN kind = "getUserGroupById" /\ name = config.id.value
              ELSE IF ~config.handle.null
              THEN kind = "getUserGroupByHandle" /\ name = config.handle.value
              ELSE /\ kind \notin {"getUserGroupById", "getUserGroupByHandle"}
                   /\ result.item = ZeroItem
                   /\ ~state.set
                   /\ pc = "done" => diags = <<ProviderError>>

====
